---- MODULE Spec2Model ----
(***************************************************************************)
(* Model of the open-space ROI decider of the planning module              *)
(* (modules/planning/tasks/deciders/open_space_roi_decider.cc).            *)
(*                                                                         *)
(* Numbers.  The code computes in doubles; the model computes in exact     *)
(* integer arithmetic on a grid whose unit is 1e-8 m, the tolerance of     *)
(* FuseLineSegments.  In that unit the tolerance of FuseLineSegments is 1  *)
(* and the axis tolerance of GetHyperPlanes (1e-5 m) is 1000.  A point is  *)
(* a pair <<x, y>>.  Angles are counted in quarter turns (pi/2), so every  *)
(* rotation the model performs is exact.  A row of the matrices A, b is    *)
(* kept as the exact fraction the code computes: [ax, ay, b, d] stands for *)
(* A = (ax/d, ay/d), b = b/d with d > 0.                                   *)
(***************************************************************************)
EXTENDS Integers, Sequences, FiniteSets, TLC

VARIABLES
    fz,      \* FuseLineSegments applied to a list of segments on its own
    hp,      \* GetHyperPlanes applied to a list of pieces on its own
    sm,      \* the sampling loop of GetParkingBoundary on its own
    mp,      \* GetParkingSpotFromMap over successive planning cycles
    sa,      \* the Approach stage of the pull-over scenario
    pc,      \* where Process is: the function it is about to run
    input,   \* what Process reads and does not write: the routing request,
             \* the map, the configuration, the vehicle state, the obstacles
    frame,   \* the open_space_info of the frame
    loc,     \* the locals of Process and GetParkingBoundary
    ret,     \* the Status the last call returned and what it logged
    calls,   \* the number of calls of Process on the frame so far
    before   \* the Status and the open_space_info the previous call left

\* the variables of Process
pipe == <<pc, input, frame, loc, ret, calls, before>>

vars == <<fz, hp, sm, mp, sa, pc, input, frame, loc, ret, calls, before>>

\* the values of fz, hp, sm, mp and sa in the specifications that do not use
\* them
FzIdle == [pc |-> "idle"]

HpIdle == [pc |-> "idle"]

SmIdle == [pc |-> "idle"]

MpIdle == [pc |-> "idle"]

SaIdle == [pc |-> "idle"]

----------------------------------------------------------------------------
(* common::math::Vec2d *)

Abs(x) == IF x < 0 THEN -x ELSE x

Max(a, b) == IF a >= b THEN a ELSE b

VecSub(p, q) == <<p[1] - q[1], p[2] - q[2]>>

VecAdd(p, q) == <<p[1] + q[1], p[2] + q[2]>>

\* Vec2d::DistanceTo, squared
DistSq(p, q) == (p[1] - q[1]) * (p[1] - q[1]) + (p[2] - q[2]) * (p[2] - q[2])

\* common::math::CrossProd(start, end1, end2) = (end1 - start) x (end2 - start)
CrossProd(s, e1, e2) ==
    (e1[1] - s[1]) * (e2[2] - s[2]) - (e1[2] - s[2]) * (e2[1] - s[1])

----------------------------------------------------------------------------
(* FuseLineSegments *)

\* kEpsilon = 1.0e-8 of FuseLineSegments, in grid units
kFuseEpsilon == 1

\* cur_last_point.DistanceTo(next_first_point) > kEpsilon
NotSamePoint(p, q) == DistSq(p, q) > kFuseEpsilon * kFuseEpsilon

\* the mutant of IsConvexJoint that also fuses a straight joint
IsConvexJointOrStraight(a, joint, c) == CrossProd(a, joint, c) <= 0

\* CrossProd(cur_second_to_last_point, cur_last_point, next_second_point) < 0.0
IsConvexJoint(a, joint, c) == CrossProd(a, joint, c) < 0

\* the mutant of FuseStep that erases one point of the consumed segment
FuseStepEraseOne(segs, i) ==
    [k \in 1..Len(segs) |->
        IF k = i THEN Append(segs[i], segs[i + 1][2])
        ELSE IF k = i + 1 THEN Tail(segs[i + 1])
        ELSE segs[k]]

\* the mutant of FuseStep that keeps the first point of the consumed segment
FuseStepKeepJoint(segs, i) ==
    [k \in 1..(Len(segs) - 1) |->
        IF k < i THEN segs[k]
        ELSE IF k = i THEN segs[i] \o segs[i + 1]
        ELSE segs[k + 1]]

\* cur_segment->push_back(next_second_point); next_segment->erase(first two);
\* erase next_segment from the list when it is exhausted
FuseStep(segs, i) ==
    LET cur == segs[i]
        next == segs[i + 1]
        cur2 == Append(cur, next[2])
        next2 == SubSeq(next, 3, Len(next))
    IN  IF next2 = <<>>
        THEN [k \in 1..(Len(segs) - 1) |->
                 IF k < i THEN segs[k]
                 ELSE IF k = i THEN cur2
                 ELSE segs[k + 1]]
        ELSE [k \in 1..Len(segs) |->
                 IF k = i THEN cur2
                 ELSE IF k = i + 1 THEN next2
                 ELSE segs[k]]

RECURSIVE FuseLoop(_, _)
\* the while loop: i is the position of cur_segment, the loop ends at end() - 1
FuseLoop(segs, i) ==
    IF i = Len(segs)
    THEN [ok |-> TRUE, segs |-> segs]
    ELSE LET cur == segs[i]
             next == segs[i + 1]
         IN  IF NotSamePoint(cur[Len(cur)], next[1])
             THEN FuseLoop(segs, i + 1)
             ELSE IF Len(cur) < 2 \/ Len(next) < 2
             THEN [ok |-> FALSE, segs |-> segs]
             ELSE IF IsConvexJoint(cur[Len(cur) - 1], cur[Len(cur)], next[2])
             THEN FuseLoop(FuseStep(segs, i), i)
             ELSE FuseLoop(segs, i + 1)

\* FuseLineSegments(line_segments_vec): the return value and the list as the
\* call leaves it.  The list is not empty (an empty list makes end() - 1
\* precede begin(); GetParkingBoundary never passes one).
FuseLineSegments(segs) == FuseLoop(segs, 1)

----------------------------------------------------------------------------
(* GetHyperPlanes *)

\* kEpsilon = 1.0e-5 of GetHyperPlanes, in grid units
kHyperEpsilon == 1000

\* the mutant of HyperPlaneRow that orients a general edge by v1.x > v2.x
HyperPlaneRowFlipped(v1, v2) ==
    IF Abs(v1[1] - v2[1]) < kHyperEpsilon
    THEN IF v2[2] < v1[2]
         THEN [ax |-> 1, ay |-> 0, b |-> v1[1], d |-> 1]
         ELSE [ax |-> -1, ay |-> 0, b |-> -v1[1], d |-> 1]
    ELSE IF Abs(v1[2] - v2[2]) < kHyperEpsilon
    THEN IF v1[1] < v2[1]
         THEN [ax |-> 0, ay |-> 1, b |-> v1[2], d |-> 1]
         ELSE [ax |-> 0, ay |-> -1, b |-> -v1[2], d |-> 1]
    ELSE LET sgn == IF v1[1] - v2[1] < 0 THEN -1 ELSE 1
             d == sgn * (v1[1] - v2[1])
             an == sgn * (v1[2] - v2[2])
             bn == sgn * (v1[1] * v2[2] - v2[1] * v1[2])
         IN  IF v1[1] > v2[1]
             THEN [ax |-> -an, ay |-> d, b |-> bn, d |-> d]
             ELSE [ax |-> an, ay |-> -d, b |-> -bn, d |-> d]

\* the mutant of HyperPlaneRow that orients a vertical edge by v2.y > v1.y
HyperPlaneRowVerticalFlipped(v1, v2) ==
    IF Abs(v1[1] - v2[1]) < kHyperEpsilon
    THEN IF v2[2] > v1[2]
         THEN [ax |-> 1, ay |-> 0, b |-> v1[1], d |-> 1]
         ELSE [ax |-> -1, ay |-> 0, b |-> -v1[1], d |-> 1]
    ELSE IF Abs(v1[2] - v2[2]) < kHyperEpsilon
    THEN IF v1[1] < v2[1]
         THEN [ax |-> 0, ay |-> 1, b |-> v1[2], d |-> 1]
         ELSE [ax |-> 0, ay |-> -1, b |-> -v1[2], d |-> 1]
    ELSE LET sgn == IF v1[1] - v2[1] < 0 THEN -1 ELSE 1
             d == sgn * (v1[1] - v2[1])
             an == sgn * (v1[2] - v2[2])
             bn == sgn * (v1[1] * v2[2] - v2[1] * v1[2])
         IN  IF v1[1] < v2[1]
             THEN [ax |-> -an, ay |-> d, b |-> bn, d |-> d]
             ELSE [ax |-> an, ay |-> -d, b |-> -bn, d |-> d]

\* The hyperplane through v1 and v2.  In the general case the code solves
\* [[v1.x, 1], [v2.x, 1]] * [a; b] = [v1.y; v2.y]:
\*   a = (v1.y - v2.y) / (v1.x - v2.x),
\*   b = (v1.x * v2.y - v2.x * v1.y) / (v1.x - v2.x);
\* an / d and bn / d are these fractions with the denominator made positive.
HyperPlaneRow(v1, v2) ==
    IF Abs(v1[1] - v2[1]) < kHyperEpsilon
    THEN IF v2[2] < v1[2]
         THEN [ax |-> 1, ay |-> 0, b |-> v1[1], d |-> 1]
         ELSE [ax |-> -1, ay |-> 0, b |-> -v1[1], d |-> 1]
    ELSE IF Abs(v1[2] - v2[2]) < kHyperEpsilon
    THEN IF v1[1] < v2[1]
         THEN [ax |-> 0, ay |-> 1, b |-> v1[2], d |-> 1]
         ELSE [ax |-> 0, ay |-> -1, b |-> -v1[2], d |-> 1]
    ELSE LET sgn == IF v1[1] - v2[1] < 0 THEN -1 ELSE 1
             d == sgn * (v1[1] - v2[1])
             an == sgn * (v1[2] - v2[2])
             bn == sgn * (v1[1] * v2[2] - v2[1] * v1[2])
         IN  IF v1[1] < v2[1]
             THEN [ax |-> -an, ay |-> d, b |-> bn, d |-> d]
             ELSE [ax |-> an, ay |-> -d, b |-> -bn, d |-> d]

RECURSIVE SumSeq(_)
\* Eigen's obstacles_edges_num.sum()
SumSeq(s) == IF s = <<>> THEN 0 ELSE s[1] + SumSeq(Tail(s))

\* Eigen::MatrixXd::Zero(rows, 2) and Zero(rows, 1)
ZeroA(rows) == [k \in 1..rows |-> [ax |-> 0, ay |-> 0, d |-> 1]]

Zerob(rows) == [k \in 1..rows |-> [b |-> 0, d |-> 1]]

\* the mutant of NextCounter that advances by the number of vertices
NextCounterByVertices(counter, current_vertice_num) ==
    counter + current_vertice_num + 1

\* counter += static_cast<int>(current_vertice_num)
NextCounter(counter, current_vertice_num) == counter + current_vertice_num

\* A_all->block(counter, 0, A_i.rows(), 2) = A_i, likewise b_all: rows
\* counter .. counter + n - 1 (counted from 0) take the rows of the piece.
\* Reading vertices[j + 1] past the end of the piece is marked in ub.
WriteBlock(acc, piece, n) ==
    LET row(j) == HyperPlaneRow(piece[j], piece[j + 1])
        inblock(k) == k > acc.counter /\ k <= acc.counter + n
    IN  [A |-> [k \in DOMAIN acc.A |->
                   IF inblock(k) /\ k - acc.counter < Len(piece)
                   THEN [ax |-> row(k - acc.counter).ax,
                         ay |-> row(k - acc.counter).ay,
                         d |-> row(k - acc.counter).d]
                   ELSE acc.A[k]],
         b |-> [k \in DOMAIN acc.b |->
                   IF inblock(k) /\ k - acc.counter < Len(piece)
                   THEN [b |-> row(k - acc.counter).b,
                         d |-> row(k - acc.counter).d]
                   ELSE acc.b[k]],
         counter |-> NextCounter(acc.counter, n),
         ub |-> acc.ub \/ n > Len(piece) - 1 \/ acc.counter + n > Len(acc.A)]

RECURSIVE HyperLoop(_, _, _, _)
\* for (size_t i = 0; i < obstacles_num; ++i)
HyperLoop(i, obstacles_num, edges_num, vertices_vec) ==
    IF i = 0
    THEN [A |-> ZeroA(SumSeq(edges_num)), b |-> Zerob(SumSeq(edges_num)),
          counter |-> 0, ub |-> FALSE]
    ELSE WriteBlock(HyperLoop(i - 1, obstacles_num, edges_num, vertices_vec),
                    vertices_vec[i], edges_num[i])

\* GetHyperPlanes(obstacles_num, obstacles_edges_num, obstacles_vertices_vec,
\* A_all, b_all).  A_all and b_all arrive zeroed with sum() rows
\* (LoadObstacleInHyperPlanes), so the resize changes nothing; on the early
\* return they stay zero.
GetHyperPlanes(obstacles_num, edges_num, vertices_vec) ==
    IF obstacles_num # Len(vertices_vec)
    THEN [ok |-> FALSE, A |-> ZeroA(SumSeq(edges_num)),
          b |-> Zerob(SumSeq(edges_num)), ub |-> FALSE]
    ELSE LET r == HyperLoop(obstacles_num, obstacles_num, edges_num,
                            vertices_vec)
         IN  [ok |-> TRUE, A |-> r.A, b |-> r.b, ub |-> r.ub]

----------------------------------------------------------------------------
(* The collaborators of the decider: angles, the path, the bounding box *)

\* The step of the lattice on which the map, the vehicle and the obstacles
\* lie: twice the axis tolerance of GetHyperPlanes, so that halves of a step
\* are still outside that tolerance.
G == 2 * kHyperEpsilon

\* cos and sin of q quarter turns
CosQ(q) == CASE q % 4 = 0 -> 1 [] q % 4 = 2 -> -1 [] OTHER -> 0

SinQ(q) == CASE q % 4 = 1 -> 1 [] q % 4 = 3 -> -1 [] OTHER -> 0

\* Vec2d::SelfRotate by q quarter turns
Rotate(p, q) ==
    <<p[1] * CosQ(q) - p[2] * SinQ(q), p[1] * SinQ(q) + p[2] * CosQ(q)>>

\* Vec2d::Angle (atan2) of an axis-parallel vector, in quarter turns, in
\* (-2, 2]
Angle(v) ==
    CASE v[2] = 0 /\ v[1] >= 0 -> 0
      [] v[1] = 0 /\ v[2] > 0 -> 1
      [] v[2] = 0 /\ v[1] < 0 -> 2
      [] OTHER -> -1

\* common::math::NormalizeAngle: into [-pi, pi), in quarter turns [-2, 2)
NormalizeAngle(q) == ((q + 2) % 4) - 2

\* -= origin_point; SelfRotate(-origin_heading): world frame to local frame
ToLocal(p, origin_point, origin_heading) ==
    Rotate(VecSub(p, origin_point), -origin_heading)

\* SelfRotate(origin_heading); += origin_point: local frame to world frame
ToWorld(p, origin_point, origin_heading) ==
    VecAdd(Rotate(p, origin_heading), origin_point)

\* hdmap::Path: the path runs along the x axis from s = 0 to s = path.bend_s,
\* turns there by path.bend quarter turns (0: it stays straight), runs on to
\* s = path.bend2_s >= path.bend_s and turns there by path.bend2 quarter
\* turns.  GetSmoothPoint gives the point at arc length s, PathHeading its
\* heading.
GetSmoothPoint(path, s) ==
    LET on1 == IF s <= path.bend_s THEN s ELSE path.bend_s
        on2 == IF s <= path.bend_s THEN 0
               ELSE IF s <= path.bend2_s THEN s - path.bend_s
               ELSE path.bend2_s - path.bend_s
        on3 == IF s <= path.bend2_s THEN 0 ELSE s - path.bend2_s
    IN  <<on1 + on2 * CosQ(path.bend) + on3 * CosQ(path.bend + path.bend2),
          on2 * SinQ(path.bend) + on3 * SinQ(path.bend + path.bend2)>>

PathHeading(path, s) ==
    (IF s < path.bend_s THEN 0 ELSE path.bend)
        + (IF s < path.bend2_s THEN 0 ELSE path.bend2)

\* Path::GetProjection: arc length s and signed lateral offset l (left
\* positive) of p, on the leg of the path p is abreast of; for a path that
\* turns once (path.bend2 = 0)
GetProjection(path, p) ==
    IF path.bend = 0 \/ p[1] <= path.bend_s
    THEN [s |-> p[1], l |-> p[2]]
    ELSE [s |-> path.bend_s + Max(0, p[1] * CosQ(path.bend)
                                      + p[2] * SinQ(path.bend)),
          l |-> (p[2] * CosQ(path.bend) - (p[1] - path.bend_s)
                                              * SinQ(path.bend))]

GetRoadLeftWidth(path, s) == path.left_width

GetRoadRightWidth(path, s) == path.right_width

\* common::math::Box2d: center, half_length along the heading, half_width
\* across it, heading in quarter turns
\* Box2d::Shift
BoxShift(box, v) == [box EXCEPT !.center = VecAdd(box.center, v)]

\* Box2d::LongitudinalExtend: length += extension, half_length += extension/2
BoxLongitudinalExtend(box, extension) ==
    [box EXCEPT !.half_length = box.half_length + extension \div 2]

\* Box2d::LateralExtend
BoxLateralExtend(box, extension) ==
    [box EXCEPT !.half_width = box.half_width + extension \div 2]

\* Box2d::GetAllCorners: the four corners in counter-clockwise order
BoxGetAllCorners(box) ==
    LET dx1 == CosQ(box.heading) * box.half_length
        dy1 == SinQ(box.heading) * box.half_length
        dx2 == SinQ(box.heading) * box.half_width
        dy2 == -CosQ(box.heading) * box.half_width
        c == box.center
    IN  << <<c[1] + dx1 + dx2, c[2] + dy1 + dy2>>,
           <<c[1] + dx1 - dx2, c[2] + dy1 - dy2>>,
           <<c[1] - dx1 - dx2, c[2] - dy1 - dy2>>,
           <<c[1] - dx1 + dx2, c[2] - dy1 + dy2>> >>

\* Box2d::DistanceTo(point), squared
BoxDistanceSqTo(box, p) ==
    LET x0 == p[1] - box.center[1]
        y0 == p[2] - box.center[2]
        dx == Abs(x0 * CosQ(box.heading) + y0 * SinQ(box.heading))
                  - box.half_length
        dy == Abs(x0 * SinQ(box.heading) - y0 * CosQ(box.heading))
                  - box.half_width
    IN  IF dx <= 0 THEN Max(0, dy) * Max(0, dy)
        ELSE IF dy <= 0 THEN dx * dx
        ELSE dx * dx + dy * dy

----------------------------------------------------------------------------
(* GetParkingBoundary *)

\* the mutant of NextCheckPoint that does not cut the station at end_s
NextCheckPointUncut(index, c) == index * c.seg_len

\* check_point_s = index * roi_linesegment_length, cut at end_s
NextCheckPoint(index, c) ==
    IF index * c.seg_len >= c.end_s THEN c.end_s ELSE index * c.seg_len

RECURSIVE SampleLoop(_, _, _, _, _)
\* The sampling loop, from its state before an iteration: index, check_point_s,
\* last_check_point_heading and the stations recorded so far (center_lane_s).
\* c holds path, start_s, end_s, seg_len and min_angle.
SampleLoop(c, index, check_point_s, last_heading, recorded) ==
    IF ~(check_point_s <= c.end_s)
    THEN recorded
    ELSE LET heading == PathHeading(c.path, check_point_s)
         IN  IF /\ Abs(NormalizeAngle(heading - last_heading)) < c.min_angle
                /\ check_point_s # c.start_s
                /\ check_point_s # c.end_s
             THEN SampleLoop(c, index + 1, NextCheckPoint(index + 1, c),
                             heading, recorded)
             ELSE IF check_point_s = c.end_s
             THEN Append(recorded, check_point_s)
             ELSE SampleLoop(c, index + 1, NextCheckPoint(index + 1, c),
                             heading, Append(recorded, check_point_s))

\* center_lane_s as the loop leaves it
SampleStations(c) ==
    SampleLoop(c, 0, c.start_s, PathHeading(c.path, c.start_s), <<>>)

\* left_lane_point and right_lane_point of a recorded station, world frame
LeftLanePoint(path, s) ==
    LET h == PathHeading(path, s)
        w == GetRoadLeftWidth(path, s)
    IN  VecAdd(<<w * CosQ(h + 1), w * SinQ(h + 1)>>, GetSmoothPoint(path, s))

RightLanePoint(path, s) ==
    LET h == PathHeading(path, s)
        w == GetRoadRightWidth(path, s)
    IN  VecAdd(<<w * CosQ(h - 1), w * SinQ(h - 1)>>, GetSmoothPoint(path, s))

\* the mutant of RescalePoint that leaves the edge point where it was sampled
RescalePointUnscaled(p, center, width, scale, origin_point, origin_heading) ==
    p

\* The rescaling of one edge point (local frame in, local frame out): back to
\* the world frame, minus the centre point, divided by the road width, times
\* the half width scale, plus the centre point, to the local frame.  The
\* offset is a multiple of the road width on the straight path, so the
\* integer division is exact.
RescalePoint(p, center, width, scale, origin_point, origin_heading) ==
    LET w == ToWorld(p, origin_point, origin_heading)
        off == VecSub(w, center)
        scaled == <<(off[1] \div width) * scale, (off[2] \div width) * scale>>
    IN  ToLocal(VecAdd(scaled, center), origin_point, origin_heading)

\* the elements of s that satisfy the test T (a set of values) all come
\* before those that do not: what std::lower_bound and std::upper_bound
\* require of center_lane_s for the value they look for
IsPartitioned(s, T) ==
    \A i, j \in 1..Len(s) : (i < j /\ s[j] \in T) => s[i] \in T

\* std::lower_bound and std::upper_bound on center_lane_s, as a distance from
\* begin(): on a partitioned array the number of elements < v (<= v); on an
\* array that is not partitioned the call is undefined and may return any
\* position
LowerBound(s, v) ==
    LET T == {s[i] : i \in {k \in 1..Len(s) : s[k] < v}}
    IN  IF IsPartitioned(s, T)
        THEN {Cardinality({k \in 1..Len(s) : s[k] < v})}
        ELSE 0..Len(s)

UpperBound(s, v) ==
    LET T == {s[i] : i \in {k \in 1..Len(s) : s[k] <= v}}
    IN  IF IsPartitioned(s, T)
        THEN {Cardinality({k \in 1..Len(s) : s[k] <= v})}
        ELSE 0..Len(s)

\* index == 0 ? index : index - 1
NearIndex(lower) == IF lower = 0 THEN lower ELSE lower - 1

Reverse(s) == [i \in 1..Len(s) |-> s[Len(s) + 1 - i]]

\* the 2-point segments s[i], s[i + 1] for the 0-based i = from .. to - 1
ForwardSegments(s, from, to) ==
    [k \in 1..(IF to > from THEN to - from ELSE 0) |->
        <<s[from + k], s[from + k + 1]>>]

\* the 2-point segments s[i], s[i - 1] for the 0-based i = from down to to + 1
BackwardSegments(s, from, to) ==
    [k \in 1..(IF from > to THEN from - to ELSE 0) |->
        <<s[from - k + 2], s[from - k + 1]>>]

\* v[index] for a 0-based index; past the end the read is undefined and
\* yields oob
ReadAt(v, index, oob) == IF index < Len(v) THEN v[index + 1] ELSE oob

\* boundary_points of the branch average_l < 0: the right edge up to the near
\* bracket, the spot, the right edge from the far bracket, the left edge
\* reversed, and right_lane_boundary.front()
RightBoundaryPoints(right, left, spot, near, far) ==
    SubSeq(right, 1, near) \o spot \o SubSeq(right, far + 1, Len(right))
        \o Reverse(left) \o <<right[1]>>

\* roi_parking_boundary of the branch average_l < 0
RightBoundarySegments(right, left, spot, near, far, oob) ==
    ForwardSegments(right, 0, near)
        \o << <<right[near + 1], spot[1]>> >>
        \o << <<spot[1], spot[2]>>, <<spot[2], spot[3]>>,
              <<spot[3], spot[4]>> >>
        \o << <<spot[4], ReadAt(right, far, oob)>> >>
        \o ForwardSegments(right, far, Len(right) - 1)
        \o BackwardSegments(left, Len(left) - 1, 0)

\* boundary_points of the other branch: the right edge, the left edge
\* reversed down to the far bracket, the spot, the left edge reversed from
\* the near bracket, and right_lane_boundary.front()
LeftBoundaryPoints(right, left, spot, near, far) ==
    right \o Reverse(SubSeq(left, far + 1, Len(left))) \o spot
        \o Reverse(SubSeq(left, 1, near)) \o <<right[1]>>

\* roi_parking_boundary of the other branch
LeftBoundarySegments(right, left, spot, near, far, oob) ==
    ForwardSegments(right, 0, Len(right) - 1)
        \o BackwardSegments(left, Len(left) - 1, far)
        \o << <<ReadAt(left, far, oob), spot[1]>> >>
        \o << <<spot[1], spot[2]>>, <<spot[2], spot[3]>>,
              <<spot[3], spot[4]>> >>
        \o << <<spot[4], left[near + 1]>> >>
        \o BackwardSegments(left, near, 0)

\* std::minmax_element over boundary_points: xmin, xmax, ymin, ymax
MinOf(S) == CHOOSE m \in S : \A x \in S : m <= x

MaxOf(S) == CHOOSE m \in S : \A x \in S : m >= x

RoiXYBoundary(pts) ==
    LET xs == {pts[i][1] : i \in 1..Len(pts)}
        ys == {pts[i][2] : i \in 1..Len(pts)}
    IN  <<MinOf(xs), MaxOf(xs), MinOf(ys), MaxOf(ys)>>

\* the mutant of OutsideRoi that tests x only
OutsideRoiXOnly(p, roi) == p[1] < roi[1] \/ p[1] > roi[2]

\* p.x < xmin || p.x > xmax || p.y < ymin || p.y > ymax
OutsideRoi(p, roi) ==
    p[1] < roi[1] \/ p[1] > roi[2] \/ p[2] < roi[3] \/ p[2] > roi[4]

\* end_y of the end pose (local frame); heading is parking_spot_heading in
\* quarter turns, so heading > kMathEpsilon is heading > 0.  The depths are
\* multiples of 4, so the quarters are exact.
EndPoseY(left_top, left_down, heading, inwards, vehicle_params, buffer) ==
    LET top_to_down_distance == left_top[2] - left_down[2]
    IN  IF heading > 0
        THEN IF inwards
             THEN left_down[2]
                      - (Max((3 * (-top_to_down_distance)) \div 4,
                             vehicle_params.front_edge_to_center) + buffer)
             ELSE left_down[2]
                      - (Max((-top_to_down_distance) \div 4,
                             vehicle_params.back_edge_to_center) + buffer)
        ELSE IF inwards
             THEN left_down[2]
                      + (Max((3 * top_to_down_distance) \div 4,
                             vehicle_params.front_edge_to_center) + buffer)
             ELSE left_down[2]
                      + (Max(top_to_down_distance \div 4,
                             vehicle_params.back_edge_to_center) + buffer)

\* the four values pushed onto open_space_end_pose
EndPose(left_top, left_down, right_top, inwards, vehicle_params, buffer) ==
    LET heading == Angle(VecSub(left_down, left_top))
    IN  << (left_top[1] + right_top[1]) \div 2,
           EndPoseY(left_top, left_down, heading, inwards, vehicle_params,
                    buffer),
           IF inwards THEN heading ELSE NormalizeAngle(heading + 2),
           0 >>

\* What GetParkingBoundary has computed when it reaches the bracket search:
\* the projections, the stations, the origin frame, the two edge polylines
\* (the one on the side of the spot rescaled) and the spot, in the local
\* frame.  polygon holds the corners of the spot in the order of the map:
\* left_down, right_down, right_top, left_top.
ParkingGeometry(path, polygon, config) ==
    LET left_top == polygon[4]
        left_down == polygon[1]
        right_top == polygon[3]
        right_down == polygon[2]
        left_top_sl == GetProjection(path, left_top)
        right_top_sl == GetProjection(path, right_top)
        average_l == (left_top_sl.l + right_top_sl.l) \div 2
        center_line_s == (left_top_sl.s + right_top_sl.s) \div 2
        c == [path |-> path,
              start_s |-> center_line_s - config.roi_longitudinal_range,
              end_s |-> center_line_s + config.roi_longitudinal_range,
              seg_len |-> config.roi_linesegment_length,
              min_angle |-> config.roi_linesegment_min_angle]
        center_lane_s == SampleStations(c)
        origin_heading == Angle(VecSub(right_top, left_top))
        origin_point == left_top
        n == Len(center_lane_s)
        right0 == [i \in 1..n |->
                     ToLocal(RightLanePoint(path, center_lane_s[i]),
                             origin_point, origin_heading)]
        left0 == [i \in 1..n |->
                     ToLocal(LeftLanePoint(path, center_lane_s[i]),
                             origin_point, origin_heading)]
    IN  [left_top_s |-> left_top_sl.s,
         right_top_s |-> right_top_sl.s,
         average_l |-> average_l,
         start_s |-> c.start_s,
         end_s |-> c.end_s,
         center_lane_s |-> center_lane_s,
         origin_point |-> origin_point,
         origin_heading |-> origin_heading,
         right_lane_boundary |->
             IF average_l < 0
             THEN [i \in 1..n |->
                     RescalePoint(right0[i],
                                  GetSmoothPoint(path, center_lane_s[i]),
                                  GetRoadRightWidth(path, center_lane_s[i]),
                                  -average_l, origin_point, origin_heading)]
             ELSE right0,
         left_lane_boundary |->
             IF average_l < 0
             THEN left0
             ELSE [i \in 1..n |->
                     RescalePoint(left0[i],
                                  GetSmoothPoint(path, center_lane_s[i]),
                                  GetRoadLeftWidth(path, center_lane_s[i]),
                                  average_l, origin_point, origin_heading)],
         spot |-> << ToLocal(left_top, origin_point, origin_heading),
                     ToLocal(left_down, origin_point, origin_heading),
                     ToLocal(right_down, origin_point, origin_heading),
                     ToLocal(right_top, origin_point, origin_heading) >>]

\* the value the lower_bound search of the branch looks for, and the value
\* the upper_bound search looks for
NearSearchValue(geo) ==
    IF geo.average_l < 0 THEN geo.left_top_s ELSE geo.right_top_s

FarSearchValue(geo) ==
    IF geo.average_l < 0 THEN geo.right_top_s ELSE geo.left_top_s

\* boundary_points and roi_parking_boundary (before the fuse) for the
\* results lower, far of the two searches; oob is what a read past the end
\* of the edge polyline yields
Stitch(geo, lower, far, oob) ==
    LET near == NearIndex(lower)
        right == geo.right_lane_boundary
        left == geo.left_lane_boundary
    IN  IF geo.average_l < 0
        THEN [near |-> near, far |-> far,
              boundary_points |->
                  RightBoundaryPoints(right, left, geo.spot, near, far),
              segments |->
                  RightBoundarySegments(right, left, geo.spot, near, far,
                                        oob)]
        ELSE [near |-> near, far |-> far,
              boundary_points |->
                  LeftBoundaryPoints(right, left, geo.spot, near, far),
              segments |->
                  LeftBoundarySegments(right, left, geo.spot, near, far,
                                       oob)]

----------------------------------------------------------------------------
(* FilterOutObstacle, LoadObstacleInVertices *)

\* the mutant of FarFromBoth that asks for one of the two distances only
FarFromEither(box, vehicle_x_y, end_pose_x_y, filtering_distance) ==
    \/ BoxDistanceSqTo(box, vehicle_x_y)
           > filtering_distance * filtering_distance
    \/ BoxDistanceSqTo(box, end_pose_x_y)
           > filtering_distance * filtering_distance

\* vehicle_center_to_obstacle > filtering_distance &&
\* end_pose_center_to_obstacle > filtering_distance, on squared distances
FarFromBoth(box, vehicle_x_y, end_pose_x_y, filtering_distance) ==
    /\ BoxDistanceSqTo(box, vehicle_x_y)
           > filtering_distance * filtering_distance
    /\ BoxDistanceSqTo(box, end_pose_x_y)
           > filtering_distance * filtering_distance

\* FilterOutObstacle(frame, obstacle): TRUE when the obstacle is left out.
\* info is the open_space_info of the frame.
FilterOutObstacle(info, vehicle_x_y, filtering_distance, obstacle) ==
    IF obstacle.is_virtual THEN TRUE
    ELSE IF OutsideRoi(ToLocal(obstacle.box.center, info.origin_point,
                               info.origin_heading),
                       info.ROI_xy_boundary)
    THEN TRUE
    ELSE FarFromBoth(obstacle.box, vehicle_x_y,
                     ToWorld(<<info.open_space_end_pose[1],
                               info.open_space_end_pose[2]>>,
                             info.origin_point, info.origin_heading),
                     filtering_distance)

\* the mutant of CornersClockwise that keeps the order of GetAllCorners
CornersKeptCounterClockwise(corners, origin_heading) ==
    [k \in 1..Len(corners) |-> Rotate(corners[k], -origin_heading)]

\* the while loop that empties vertices_ccw from its back: the corners in
\* reverse order, each rotated by -origin_heading
CornersClockwise(corners, origin_heading) ==
    [k \in 1..Len(corners) |->
        Rotate(corners[Len(corners) + 1 - k], -origin_heading)]

\* the vertices pushed for one perception obstacle that passed the filter
ObstacleVertices(info, buffer, obstacle) ==
    LET shifted == BoxShift(obstacle.box,
                            <<-info.origin_point[1], -info.origin_point[2]>>)
        original_box == BoxLateralExtend(
                            BoxLongitudinalExtend(shifted, buffer), buffer)
        vertices_cw == CornersClockwise(BoxGetAllCorners(original_box),
                                        info.origin_heading)
    IN  Append(vertices_cw, vertices_cw[1])

\* the mutant of ParkingBoundaryEdgesNum that counts the vertices
ParkingBoundaryVerticesNum(roi_parking_boundary) ==
    [i \in 1..Len(roi_parking_boundary) |-> Len(roi_parking_boundary[i])]

\* parking_boundaries_obstacles_edges_num(i, 0) =
\*     static_cast<int>(roi_parking_boundary[i].size()) - 1
ParkingBoundaryEdgesNum(roi_parking_boundary) ==
    [i \in 1..Len(roi_parking_boundary) |->
        Len(roi_parking_boundary[i]) - 1]

\* 4 * Eigen::MatrixXi::Ones(perception_obstacles_num, 1)
PerceptionEdgesNum(perception_obstacles_num) ==
    [k \in 1..perception_obstacles_num |-> 4]

RECURSIVE ObstaclePieces(_, _, _, _)
\* for (const auto &obstacle : obstacles_by_frame_->Items()): the pieces
\* pushed for the obstacles of the list, in its order
ObstaclePieces(info, vehicle_x_y, config, obstacles) ==
    IF obstacles = <<>> THEN <<>>
    ELSE LET rest == ObstaclePieces(info, vehicle_x_y, config,
                                    Tail(obstacles))
         IN  IF FilterOutObstacle(
                    info, vehicle_x_y,
                    config.perception_obstacle_filtering_distance,
                    Head(obstacles))
             THEN rest
             ELSE <<ObstacleVertices(info, config.perception_obstacle_buffer,
                                     Head(obstacles))>> \o rest

----------------------------------------------------------------------------
(* Specification Spec: Process, called on a frame once or several times *)

\* the largest number of obstacles of the frame
MaxObstacles == 2

\* the largest number of calls of Process on one frame
MaxCalls == 2

\* the reference paths: straight, and turning left by a quarter turn at
\* s = 4 G; the road is 2 G wide on each side
Paths ==
    {[bend_s |-> 0, bend |-> 0, bend2_s |-> 0, bend2 |-> 0,
      left_width |-> 2 * G, right_width |-> 2 * G],
     [bend_s |-> 4 * G, bend |-> 1, bend2_s |-> 4 * G, bend2 |-> 0,
      left_width |-> 2 * G, right_width |-> 2 * G]}

\* The parking spots: G wide and G deep, top corners at lateral offset G on
\* the right (side = -1) or on the left (side = 1) of the path, with the left
\* corners at x = lx and the right corners at x = rx.  The corners are in
\* the order of the map polygon: left_down, right_down, right_top, left_top.
SpotPolygon(side, lx, rx) ==
    << <<lx, side * 2 * G>>, <<rx, side * 2 * G>>,
       <<rx, side * G>>, <<lx, side * G>> >>

\* the spot whose top corners lie on the centre line of the path
\* (average_l = 0), G wide and G deep
SpotOnCentreLine(lx, rx) ==
    << <<lx, -G>>, <<rx, -G>>, <<rx, 0>>, <<lx, 0>> >>

Polygons ==
    {SpotPolygon(side, x[1], x[2]) :
        side \in {-1, 1}, x \in {<<2 * G, 3 * G>>, <<3 * G, 2 * G>>}}
        \union {SpotOnCentreLine(2 * G, 3 * G)}

\* open_space_roi_decider_config
Configs ==
    [roi_longitudinal_range : {0, G, 2 * G},
     roi_linesegment_length : {G, 2 * G},
     roi_linesegment_min_angle : {0, 1},
     parking_inwards : BOOLEAN,
     enable_perception_obstacles : BOOLEAN,
     parking_depth_buffer : {-(G \div 2), 0},
     perception_obstacle_buffer : {G \div 2},
     perception_obstacle_filtering_distance : {G}]

\* vehicle_params_
VehicleParams ==
    [front_edge_to_center |-> G \div 2, back_edge_to_center |-> G \div 2]

\* vehicle_state_: on the path abreast of the spot, or 3 G to the left of it
VehicleStates == {<<2 * G, 0>>, <<2 * G, 3 * G>>}

\* the obstacles a frame may hold: G by G boxes, and one virtual obstacle
ObstacleBox(center) ==
    [center |-> center, half_length |-> G \div 2, half_width |-> G \div 2,
     heading |-> 0]

ObstacleCandidates ==
    << [is_virtual |-> FALSE, box |-> ObstacleBox(<<2 * G, G>>)],
       [is_virtual |-> FALSE, box |-> ObstacleBox(<<4 * G, 0>>)],
       [is_virtual |-> FALSE, box |-> ObstacleBox(<<G, 0>>)],
       [is_virtual |-> FALSE, box |-> ObstacleBox(<<3 * G, -2 * G>>)],
       [is_virtual |-> TRUE, box |-> ObstacleBox(<<2 * G, G>>)] >>

\* the lists of at most MaxObstacles candidates, in the order of the
\* candidates
ObstacleLists ==
    {[k \in 1..Len(ix) |-> ObstacleCandidates[ix[k]]] :
        ix \in {jx \in UNION {[1..n -> 1..Len(ObstacleCandidates)] :
                                  n \in 0..MaxObstacles} :
                   \A k \in 1..(Len(jx) - 1) : jx[k] < jx[k + 1]}}

\* what a read past the end of a vector may do: end the process, or yield
\* whatever lies there
OobOutcomes ==
    {[crash |-> TRUE, value |-> <<0, 0>>],
     [crash |-> FALSE, value |-> <<0, 0>>],
     [crash |-> FALSE, value |-> <<G, G>>]}

NoOob == [crash |-> FALSE, value |-> <<0, 0>>]

\* the open_space_info of a frame nothing has written yet
FreshInfo ==
    [origin_point |-> <<0, 0>>, origin_heading |-> 0,
     ROI_xy_boundary |-> <<>>, open_space_end_pose |-> <<>>,
     obstacles_vertices_vec |-> <<>>, obstacles_edges_num |-> <<>>,
     obstacles_num |-> 0, obstacles_A |-> <<>>, obstacles_b |-> <<>>]

\* the locals before GetParkingBoundary has run
NoLocals ==
    [center_lane_s |-> <<>>, average_l |-> 0,
     right_lane_boundary |-> <<>>, left_lane_boundary |-> <<>>,
     near |-> 0, far |-> 0,
     oob_read |-> FALSE, boundary_points |-> <<>>, segments |-> <<>>,
     roi_parking_boundary |-> <<>>, vehicle_xy |-> <<0, 0>>,
     kept |-> <<>>, hyper_ub |-> FALSE]

NoStatus == [code |-> "none", msg |-> "", log |-> <<>>]

\* Status(ErrorCode::PLANNING_ERROR, msg), after the AERROR lines logged
Failed(logged, msg) ==
    [code |-> "PLANNING_ERROR", msg |-> msg, log |-> Append(logged, msg)]

\* no call of Process has returned yet
NoBefore == [ret |-> NoStatus, frame |-> FreshInfo]

\* the values of the variables of Process while it is not modelled
PipeIdle ==
    /\ pc = "off"
    /\ input = [has_id |-> FALSE]
    /\ frame = FreshInfo
    /\ loc = NoLocals
    /\ ret = NoStatus
    /\ calls = 0
    /\ before = NoBefore

\* What Process reads: whether the routing request names a parking space,
\* whether the map finds that space on the path, the path, the polygon of
\* the space, the configuration, the vehicle position and the obstacles of
\* the frame.  The list of obstacles varies where Process can come to read
\* it; elsewhere it is empty.
Inputs ==
    {i \in [has_id : BOOLEAN,
            spot_on_path : BOOLEAN,
            path : Paths,
            polygon : Polygons,
            config : Configs,
            vehicle_state : VehicleStates,
            obstacles : ObstacleLists] :
        \/ i.obstacles = <<>>
        \/ /\ i.has_id
           /\ i.spot_on_path
           /\ i.config.enable_perception_obstacles}

Init ==
    /\ fz = FzIdle
    /\ hp = HpIdle
    /\ sm = SmIdle
    /\ mp = MpIdle
    /\ sa = SaIdle
    /\ pc = "idle"
    /\ input \in Inputs
    /\ frame = FreshInfo
    /\ loc = NoLocals
    /\ ret = NoStatus
    /\ calls = 0
    /\ before = NoBefore

\* Process up to the call of GetParkingBoundary: the routing request must
\* name a parking space
ProcessEnter ==
    /\ pc \in {"idle", "returned"}
    /\ calls < MaxCalls
    /\ calls' = calls + 1
    /\ before' = [ret |-> ret, frame |-> frame]
    /\ loc' = NoLocals
    /\ IF input.has_id
       THEN pc' = "GetParkingBoundary" /\ ret' = NoStatus
       ELSE /\ pc' = "returned"
            /\ ret' = Failed(<<>>,
                             "Failed to get parking space id from routing")
    /\ UNCHANGED <<fz, hp, sm, mp, sa, input, frame>>

\* GetParkingBoundary from the bracket search on, for the results lower and
\* far of the two searches and the outcome oob of a read past the end
BoundaryFromBrackets(geo, lower, far, oob) ==
    LET st == Stitch(geo, lower, far, oob.value)
        fused == FuseLineSegments(st.segments)
        roi == RoiXYBoundary(st.boundary_points)
        vehicle_xy == ToLocal(input.vehicle_state, geo.origin_point,
                              geo.origin_heading)
        located == [frame EXCEPT !.origin_point = geo.origin_point,
                                 !.origin_heading = geo.origin_heading]
        locals == [loc EXCEPT !.center_lane_s = geo.center_lane_s,
                              !.average_l = geo.average_l,
                              !.right_lane_boundary = geo.right_lane_boundary,
                              !.left_lane_boundary = geo.left_lane_boundary,
                              !.near = st.near,
                              !.far = st.far,
                              !.oob_read = far >= Len(geo.center_lane_s),
                              !.boundary_points = st.boundary_points,
                              !.segments = st.segments,
                              !.roi_parking_boundary = fused.segs,
                              !.vehicle_xy = vehicle_xy]
        failure == "Fail to get parking boundary from map"
    IN  IF oob.crash
        THEN /\ pc' = "crashed"
             /\ frame' = located
             /\ loc' = [locals EXCEPT !.boundary_points = <<>>,
                                      !.segments = <<>>,
                                      !.roi_parking_boundary = <<>>]
             /\ ret' = ret
        ELSE IF ~fused.ok
        THEN /\ pc' = "returned"
             /\ frame' = located
             /\ loc' = locals
             /\ ret' = Failed(<<>>, failure)
        ELSE IF OutsideRoi(vehicle_xy, roi)
        THEN /\ pc' = "returned"
             /\ frame' = [located EXCEPT !.ROI_xy_boundary = roi]
             /\ loc' = locals
             /\ ret' = Failed(
                    <<"vehicle outside of xy boundary of parking ROI">>,
                    failure)
        ELSE IF ~(input.config.parking_depth_buffer >= 0)
        THEN /\ pc' = "aborted"
             /\ frame' = [located EXCEPT !.ROI_xy_boundary = roi]
             /\ loc' = locals
             /\ ret' = ret
        ELSE /\ pc' = "LoadObstacleInVertices"
             /\ frame' = [located EXCEPT
                    !.ROI_xy_boundary = roi,
                    !.open_space_end_pose =
                        @ \o EndPose(geo.spot[1], geo.spot[2], geo.spot[4],
                                     input.config.parking_inwards,
                                     VehicleParams,
                                     input.config.parking_depth_buffer)]
             /\ loc' = locals
             /\ ret' = ret

\* GetParkingBoundary, with GetParkingSpotFromMap, and the return of Process
\* when it fails
GetParkingBoundary ==
    /\ pc = "GetParkingBoundary"
    /\ IF ~input.spot_on_path
       THEN /\ pc' = "returned"
            /\ ret' = Failed(
                   <<"No such parking spot found after searching all path forward possible",
                     "fail to get map info in open space planner">>,
                   "Fail to get parking boundary from map")
            /\ UNCHANGED <<frame, loc>>
       ELSE LET geo == ParkingGeometry(input.path, input.polygon,
                                       input.config)
            IN  \E lower \in LowerBound(geo.center_lane_s,
                                        NearSearchValue(geo)),
                   far \in UpperBound(geo.center_lane_s,
                                      FarSearchValue(geo)) :
                    \E oob \in IF far >= Len(geo.center_lane_s)
                               THEN OobOutcomes ELSE {NoOob} :
                        BoundaryFromBrackets(geo, lower, far, oob)
    /\ UNCHANGED <<fz, hp, sm, mp, sa, input, calls, before>>

\* LoadObstacleInVertices; CHECK_GT ends the process on a piece of fewer
\* than 2 vertices
LoadObstacleInVertices ==
    /\ pc = "LoadObstacleInVertices"
    /\ LET roi_parking_boundary == loc.roi_parking_boundary
           parking_boundaries_num == Len(roi_parking_boundary)
           parking_boundaries_obstacles_edges_num ==
               ParkingBoundaryEdgesNum(roi_parking_boundary)
           pieces == ObstaclePieces(frame, input.vehicle_state,
                                    input.config, input.obstacles)
           perception_obstacles_num == Len(pieces)
       IN  IF \E i \in 1..parking_boundaries_num :
                  ~(Len(roi_parking_boundary[i]) > 1)
           THEN pc' = "aborted" /\ UNCHANGED <<frame, loc>>
           ELSE IF input.config.enable_perception_obstacles
           THEN /\ pc' = "LoadObstacleInHyperPlanes"
                /\ frame' = [frame EXCEPT
                       !.obstacles_vertices_vec =
                           @ \o roi_parking_boundary \o pieces,
                       !.obstacles_edges_num =
                           parking_boundaries_obstacles_edges_num
                               \o PerceptionEdgesNum(
                                      perception_obstacles_num),
                       !.obstacles_num =
                           parking_boundaries_num + perception_obstacles_num]
                /\ loc' = [loc EXCEPT !.kept = pieces]
           ELSE /\ pc' = "LoadObstacleInHyperPlanes"
                /\ frame' = [frame EXCEPT
                       !.obstacles_vertices_vec = @ \o roi_parking_boundary,
                       !.obstacles_edges_num =
                           parking_boundaries_obstacles_edges_num,
                       !.obstacles_num = parking_boundaries_num]
                /\ loc' = loc
    /\ UNCHANGED <<fz, hp, sm, mp, sa, input, ret, calls, before>>

\* LoadObstacleInHyperPlanes and the return of Process
LoadObstacleInHyperPlanes ==
    /\ pc = "LoadObstacleInHyperPlanes"
    /\ LET r == GetHyperPlanes(frame.obstacles_num,
                               frame.obstacles_edges_num,
                               frame.obstacles_vertices_vec)
       IN  /\ frame' = [frame EXCEPT !.obstacles_A = r.A,
                                     !.obstacles_b = r.b]
           /\ loc' = [loc EXCEPT !.hyper_ub = r.ub]
           /\ ret' = IF r.ok
                     THEN [code |-> "OK", msg |-> "", log |-> <<>>]
                     ELSE Failed(<<"Fail to present obstacle in hyperplane",
                                   "fail at LoadObstacleInHyperPlanes()">>,
                                 "Fail to formulate boundary constraints")
    /\ pc' = "returned"
    /\ UNCHANGED <<fz, hp, sm, mp, sa, input, calls, before>>

Next ==
    \/ ProcessEnter
    \/ GetParkingBoundary
    \/ LoadObstacleInVertices
    \/ LoadObstacleInHyperPlanes

Spec == Init /\ [][Next]_vars

----------------------------------------------------------------------------
(* Specification SpecFuse: FuseLineSegments on any list of segments *)

\* the largest number of segments of a list
MaxSegs == 3

\* The end points of the segments, in units of 1e-8 m: a lattice of step 2
\* and, one unit from <<2, 2>>, a point that is within the tolerance of it.
FusePoints ==
    {<<0, 2>>, <<2, 0>>, <<2, 2>>, <<4, 0>>, <<4, 2>>, <<2, 3>>}

Segments == {<<p, q>> : p \in FusePoints, q \in FusePoints}

SegmentLists == UNION {[1..n -> Segments] : n \in 1..MaxSegs}

FuseInit ==
    /\ fz \in {[pc |-> "input", input |-> l] : l \in SegmentLists}
    /\ hp = HpIdle
    /\ sm = SmIdle
    /\ mp = MpIdle
    /\ sa = SaIdle
    /\ PipeIdle

\* the first call, on the list of 2-point segments
FuseFirst ==
    /\ fz.pc = "input"
    /\ LET r == FuseLineSegments(fz.input)
       IN  fz' = [pc |-> "fused", input |-> fz.input,
                  ok |-> r.ok, out |-> r.segs]
    /\ UNCHANGED <<hp, sm, mp, sa, pipe>>

\* the second call, on the list the first call left
FuseAgain ==
    /\ fz.pc = "fused"
    /\ LET r == FuseLineSegments(fz.out)
       IN  fz' = [pc |-> "refused", input |-> fz.input,
                  ok |-> fz.ok, out |-> fz.out,
                  ok2 |-> r.ok, out2 |-> r.segs]
    /\ UNCHANGED <<hp, sm, mp, sa, pipe>>

FuseNext == FuseFirst \/ FuseAgain

SpecFuse == FuseInit /\ [][FuseNext]_vars

----------------------------------------------------------------------------
(* Specification SpecMalformed: FuseLineSegments on a list that holds a *)
(* segment of a single point *)

OnePointSegments == {<<p>> : p \in FusePoints}

\* the lists of segments of 1 or 2 points with at least one of 1 point
MalformedLists ==
    {l \in UNION {[1..n -> Segments \union OnePointSegments] :
                     n \in 1..MaxSegs} :
        \E k \in 1..Len(l) : Len(l[k]) < 2}

MalformedInit ==
    /\ fz \in {[pc |-> "input", input |-> l] : l \in MalformedLists}
    /\ hp = HpIdle
    /\ sm = SmIdle
    /\ mp = MpIdle
    /\ sa = SaIdle
    /\ PipeIdle

SpecMalformed == MalformedInit /\ [][FuseNext]_vars

----------------------------------------------------------------------------
(* Specification SpecHyper: GetHyperPlanes on any list of closed pieces *)

\* the largest number of pieces of a list
MaxPieces == 2

\* The corners of the pieces, in units of 1e-8 m: a square of side 2000 (twice
\* the axis tolerance) and <<1, 0>>, which makes edges that are within the
\* axis tolerance of the vertical without being vertical.
HyperPoints ==
    {<<0, 0>>, <<2000, 0>>, <<2000, 2000>>, <<0, 2000>>, <<1, 0>>}

\* every turn of the closed corner sequence c has the sign sg (-1: clockwise)
TurnsAll(c, sg) ==
    \A k \in 1..Len(c) :
        LET k1 == (k % Len(c)) + 1
            k2 == (k1 % Len(c)) + 1
        IN  sg * CrossProd(c[k], c[k1], c[k2]) > 0

\* c with its first corner repeated at the end
Closed(c) == Append(c, c[1])

Corners3 ==
    {c \in [1..3 -> HyperPoints] : TurnsAll(c, 1) \/ TurnsAll(c, -1)}

Corners4 ==
    {c \in [1..4 -> HyperPoints] : TurnsAll(c, 1) \/ TurnsAll(c, -1)}

\* the closed strictly convex triangles and quadrilaterals, in both
\* orientations and from every first corner
HyperPieces == {Closed(c) : c \in Corners3 \union Corners4}

HyperLists == UNION {[1..n -> HyperPieces] : n \in 1..MaxPieces}

HyperInit ==
    /\ hp \in {[pc |-> "input", pieces |-> l] : l \in HyperLists}
    /\ fz = FzIdle
    /\ sm = SmIdle
    /\ mp = MpIdle
    /\ sa = SaIdle
    /\ PipeIdle

\* GetHyperPlanes on the pieces, each with one edge less than it has vertices
HyperRun ==
    /\ hp.pc = "input"
    /\ LET edges == [i \in 1..Len(hp.pieces) |-> Len(hp.pieces[i]) - 1]
           r == GetHyperPlanes(Len(hp.pieces), edges, hp.pieces)
       IN  hp' = [pc |-> "done", pieces |-> hp.pieces, edges |-> edges,
                  ok |-> r.ok, A |-> r.A, b |-> r.b, ub |-> r.ub]
    /\ UNCHANGED <<fz, sm, mp, sa, pipe>>

HyperNext == HyperRun

SpecHyper == HyperInit /\ [][HyperNext]_vars

----------------------------------------------------------------------------
(* Specification SpecBoxes: GetHyperPlanes on one axis-aligned box *)

\* the largest coordinate of a corner of a box, in metres
MaxMetres == 3

\* 1 m in grid units: the axis tolerance, 1e-5 m, is kHyperEpsilon units
Metre == 100000 * kHyperEpsilon

\* the corners of the box [x0, x1] x [y0, y1] (in metres), counter-clockwise
\* from the corner of least x and y
BoxCorners(x0, x1, y0, y1) ==
    << <<x0 * Metre, y0 * Metre>>, <<x1 * Metre, y0 * Metre>>,
       <<x1 * Metre, y1 * Metre>>, <<x0 * Metre, y1 * Metre>> >>

\* the corners c from the k-th on, in the same cyclic order
RotateCorners(c, k) ==
    [j \in 1..Len(c) |-> c[((j + k - 2) % Len(c)) + 1]]

\* the corners c in the opposite order
ReverseCorners(c) == [j \in 1..Len(c) |-> c[Len(c) + 1 - j]]

\* the closed axis-aligned boxes with corners at whole metres, in both
\* orientations and from every first corner
BoxPieces ==
    LET extents == {q \in [1..4 -> 0..MaxMetres] : q[1] < q[2] /\ q[3] < q[4]}
        ccw == {RotateCorners(BoxCorners(q[1], q[2], q[3], q[4]), k) :
                   q \in extents, k \in 1..4}
    IN  {Closed(c) : c \in ccw}
            \union {Closed(ReverseCorners(c)) : c \in ccw}

BoxesInit ==
    /\ hp \in {[pc |-> "input", pieces |-> <<piece>>] : piece \in BoxPieces}
    /\ fz = FzIdle
    /\ sm = SmIdle
    /\ mp = MpIdle
    /\ sa = SaIdle
    /\ PipeIdle

SpecBoxes == BoxesInit /\ [][HyperNext]_vars

----------------------------------------------------------------------------
(* Specification SpecSample: the sampling loop of GetParkingBoundary, one *)
(* iteration at a time *)

\* the largest center_line_s and the largest roi_longitudinal_range
MaxCenter == 4

MaxRange == 3

\* The paths the loop samples: straight, one quarter turn at s = 2, and two
\* quarter turns to the same side, at s = 2 and at s = 4 or at s = 3 and at
\* s = 5.
SamplePaths ==
    {[bend_s |-> b[1], bend |-> b[2], bend2_s |-> b[3], bend2 |-> b[4],
      left_width |-> 2 * G, right_width |-> 2 * G] :
        b \in {<<0, 0, 0, 0>>, <<2, 1, 2, 0>>, <<2, 1, 4, 1>>,
               <<3, 1, 5, 1>>}}

\* what the loop reads: start_s and end_s as GetParkingBoundary computes them
\* from center_line_s and roi_longitudinal_range (a negative range puts end_s
\* before start_s), roi_linesegment_length and roi_linesegment_min_angle
SampleConfig(path, center_line_s, range, seg_len, min_angle) ==
    [path |-> path, start_s |-> center_line_s - range,
     end_s |-> center_line_s + range, seg_len |-> seg_len,
     min_angle |-> min_angle]

SampleConfigs ==
    {SampleConfig(path, center, range, seg_len, min_angle) :
        path \in SamplePaths, center \in 0..MaxCenter,
        range \in (-1)..MaxRange, seg_len \in {1, 2}, min_angle \in {0, 1, 2}}

\* the loop before its first iteration
SampleInit ==
    /\ sm \in {[pc |-> "loop", c |-> c, index |-> 0,
                check_point_s |-> c.start_s,
                last_check_point_heading |-> PathHeading(c.path, c.start_s),
                center_lane_s |-> <<>>,
                iterations |-> 0, skipped |-> FALSE,
                checked_s |-> c.start_s,
                checked_heading |-> PathHeading(c.path, c.start_s),
                recorded_heading |-> PathHeading(c.path, c.start_s)] :
                  c \in SampleConfigs}
    /\ fz = FzIdle
    /\ hp = HpIdle
    /\ mp = MpIdle
    /\ sa = SaIdle
    /\ PipeIdle

\* the test of the loop that skips a station
SkipsStation(c, check_point_s, check_point_heading, last_heading) ==
    /\ Abs(NormalizeAngle(check_point_heading - last_heading)) < c.min_angle
    /\ check_point_s # c.start_s
    /\ check_point_s # c.end_s

\* what every iteration notes for the properties: the station it checked,
\* its heading, and the heading of the station recorded last before it
Checked(check_point_heading) ==
    [sm EXCEPT !.iterations = @ + 1,
               !.checked_s = sm.check_point_s,
               !.checked_heading = check_point_heading,
               !.recorded_heading =
                   IF sm.iterations > 0 /\ ~sm.skipped
                   THEN sm.checked_heading ELSE @]

\* an iteration that skips the station: index += 1 and continue
SampleSkip ==
    /\ sm.pc = "loop"
    /\ sm.check_point_s <= sm.c.end_s
    /\ LET check_point_heading == PathHeading(sm.c.path, sm.check_point_s)
       IN  /\ SkipsStation(sm.c, sm.check_point_s, check_point_heading,
                           sm.last_check_point_heading)
           /\ sm' = [Checked(check_point_heading) EXCEPT
                        !.index = @ + 1,
                        !.check_point_s = NextCheckPoint(sm.index + 1, sm.c),
                        !.last_check_point_heading = check_point_heading,
                        !.skipped = TRUE]
    /\ UNCHANGED <<fz, hp, mp, sa, pipe>>

\* an iteration that records the station, and leaves the loop at end_s
SampleRecord ==
    /\ sm.pc = "loop"
    /\ sm.check_point_s <= sm.c.end_s
    /\ LET check_point_heading == PathHeading(sm.c.path, sm.check_point_s)
           recorded == [Checked(check_point_heading) EXCEPT
                           !.center_lane_s = Append(@, sm.check_point_s),
                           !.skipped = FALSE]
       IN  /\ ~SkipsStation(sm.c, sm.check_point_s, check_point_heading,
                            sm.last_check_point_heading)
           /\ IF sm.check_point_s = sm.c.end_s
              THEN sm' = [recorded EXCEPT !.pc = "done"]
              ELSE sm' = [recorded EXCEPT
                            !.index = @ + 1,
                            !.check_point_s =
                                NextCheckPoint(sm.index + 1, sm.c),
                            !.last_check_point_heading = check_point_heading]
    /\ UNCHANGED <<fz, hp, mp, sa, pipe>>

\* the condition of the while fails
SampleExit ==
    /\ sm.pc = "loop"
    /\ ~(sm.check_point_s <= sm.c.end_s)
    /\ sm' = [sm EXCEPT !.pc = "done"]
    /\ UNCHANGED <<fz, hp, mp, sa, pipe>>

SampleNext == SampleSkip \/ SampleRecord \/ SampleExit

SpecSample == SampleInit /\ [][SampleNext]_vars

\* The loop runs to its end: nothing suspends the thread of the planning
\* cycle inside GetParkingBoundary, so an iteration that can be taken is
\* taken.
SpecSampleLive == SpecSample /\ WF_vars(SampleNext)

----------------------------------------------------------------------------
(* Specification SpecMap: GetParkingSpotFromMap over planning cycles *)

\* the largest number of planning cycles
MaxCycles == 4

\* The map: three lanes; the routing request names parking space "A" or "B",
\* or no parking space ("").
Lanes == {"L1", "L2", "L3"}

SpotIds == {"A", "B"}

\* nearest_lane->lane().successor_id(i), i = 0..successor_id_size()-1
SuccessorIds(lane) ==
    CASE lane = "L3" -> <<"L1", "L2">>
      [] lane = "L2" -> <<"L1">>
      [] OTHER -> <<>>

\* the parking spaces that overlap a lane
LaneOverlaps(lane) ==
    CASE lane = "L1" -> {"A"}
      [] lane = "L2" -> {"B"}
      [] OTHER -> {}

\* Path::parking_space_overlaps of the path made of a list of lane segments
ParkingSpaceOverlaps(segments_vector) ==
    UNION {LaneOverlaps(segments_vector[k]) : k \in 1..Len(segments_vector)}

\* a frame nothing has been written on, and the frame that does not exist
\* (FrameHistory::Latest() == nullptr)
EmptyFrame ==
    [exists |-> TRUE, target_parking_lane |-> "null",
     target_parking_spot_id |-> ""]

NoFrame ==
    [exists |-> FALSE, target_parking_lane |-> "null",
     target_parking_spot_id |-> ""]

\* The frame of a cycle as the decider receives it: the stage that runs the
\* decider has written the parking space of the routing request on its
\* open-space info.
CallerFrame(routing_id) ==
    [EmptyFrame EXCEPT !.target_parking_spot_id = routing_id]

\* the test that reuses the lane of the last frame, without its comparison of
\* the identifiers
LaneCacheHitAnyId(previous, current) ==
    previous.target_parking_lane # "null"

\* the test that reuses the lane of the last frame
LaneCacheHit(previous, current) ==
    /\ previous.target_parking_lane # "null"
    /\ previous.target_parking_spot_id = current.target_parking_spot_id

\* SearchTargetParkingSpotOnPath: the target spot after the search of a path
SearchTargetParkingSpotOnPath(nearby_path, spot_id, target_parking_spot) ==
    IF spot_id \in ParkingSpaceOverlaps(nearby_path)
    THEN spot_id
    ELSE target_parking_spot

\* The loop over the successors of the lane, from successor i on:
\* segments_vector grows by the lane and the successor at every turn, and the
\* loop stops at the first path the spot is found on.
RECURSIVE SuccessorLoop(_, _, _, _)
SuccessorLoop(lane, spot_id, i, segments_vector) ==
    LET succ == SuccessorIds(lane)
        next_vector == segments_vector \o <<lane, succ[i]>>
        found == SearchTargetParkingSpotOnPath(next_vector, spot_id, "null")
    IN  IF found # "null" \/ i = Len(succ)
        THEN [path |-> next_vector, spot |-> found]
        ELSE SuccessorLoop(lane, spot_id, i + 1, next_vector)

\* the path and the spot the search ends with
SearchPaths(lane, spot_id) ==
    IF Len(SuccessorIds(lane)) # 0
    THEN SuccessorLoop(lane, spot_id, 1, <<>>)
    ELSE [path |-> <<lane>>,
          spot |-> SearchTargetParkingSpotOnPath(<<lane>>, spot_id, "null")]

\* the mutant of GetParkingSpotFromMap that writes the lane on the frame
\* after the search, when the spot has been found
GetParkingSpotLaneAfterSearch(latest, current, spot_id, nearest, in_range) ==
    IF ~latest.exists
    THEN [ok |-> FALSE, frame |-> current, queried |-> FALSE,
          path |-> <<>>, spot |-> "null"]
    ELSE LET hit == LaneCacheHit(latest, current)
             nearest_lane == IF hit THEN latest.target_parking_lane
                                    ELSE nearest
         IN  IF nearest_lane = "none"
             THEN [ok |-> FALSE, frame |-> current, queried |-> TRUE,
                   path |-> <<>>, spot |-> "null"]
             ELSE LET found == SearchPaths(nearest_lane, spot_id)
                  IN  [ok |-> found.spot # "null" /\ in_range,
                       frame |-> IF found.spot # "null"
                                 THEN [current EXCEPT
                                          !.target_parking_lane = nearest_lane]
                                 ELSE current,
                       queried |-> ~hit,
                       path |-> found.path, spot |-> found.spot]

\* GetParkingSpotFromMap.  latest is the last frame of the frame history,
\* spot_id the member target_parking_spot_id_, nearest the lane
\* GetNearestLaneWithHeading finds ("none": its status is not 0), in_range
\* the result of CheckDistanceToParkingSpot.  queried tells whether the map
\* was asked for the nearest lane.
GetParkingSpotFromMap(latest, current, spot_id, nearest, in_range) ==
    IF ~latest.exists
    THEN [ok |-> FALSE, frame |-> current, queried |-> FALSE,
          path |-> <<>>, spot |-> "null"]
    ELSE LET hit == LaneCacheHit(latest, current)
             nearest_lane == IF hit THEN latest.target_parking_lane
                                    ELSE nearest
         IN  IF nearest_lane = "none"
             THEN [ok |-> FALSE, frame |-> current, queried |-> TRUE,
                   path |-> <<>>, spot |-> "null"]
             ELSE LET found == SearchPaths(nearest_lane, spot_id)
                  IN  [ok |-> found.spot # "null" /\ in_range,
                       frame |-> [current EXCEPT
                                     !.target_parking_lane = nearest_lane],
                       queried |-> ~hit,
                       path |-> found.path, spot |-> found.spot]

\* what a cycle draws: the routing request, the lane nearest to the vehicle
\* and whether the vehicle is within parking_start_range of the spot
MapCycle(n, latest, previous_routing, routing_id, nearest, in_range) ==
    [pc |-> "cycle", cycle |-> n, latest |-> latest,
     frame |-> CallerFrame(routing_id), routing |-> routing_id,
     previous_routing |-> previous_routing,
     nearest |-> nearest, in_range |-> in_range,
     called |-> FALSE, queried |-> FALSE, ok |-> FALSE,
     path |-> <<>>, spot |-> "null"]

MapInit ==
    /\ mp \in {MapCycle(1, NoFrame, "", r, n, d) :
                  r \in SpotIds \union {""},
                  n \in Lanes \union {"none"}, d \in BOOLEAN}
    /\ fz = FzIdle
    /\ hp = HpIdle
    /\ sm = SmIdle
    /\ sa = SaIdle
    /\ PipeIdle

\* Process up to the return of GetParkingSpotFromMap
MapProcess ==
    /\ mp.pc = "cycle"
    /\ IF mp.routing = ""
       THEN mp' = [mp EXCEPT !.pc = "done"]
       ELSE LET r == GetParkingSpotFromMap(mp.latest, mp.frame, mp.routing,
                                           mp.nearest, mp.in_range)
            IN  mp' = [mp EXCEPT !.pc = "done", !.called = TRUE,
                                 !.frame = r.frame, !.queried = r.queried,
                                 !.ok = r.ok, !.path = r.path,
                                 !.spot = r.spot]
    /\ UNCHANGED <<fz, hp, sm, sa, pipe>>

\* the next planning cycle: the frame of this cycle becomes the last frame of
\* the frame history
MapNextCycle ==
    /\ mp.pc = "done"
    /\ mp.cycle < MaxCycles
    /\ \E r \in SpotIds \union {""}, n \in Lanes \union {"none"},
          d \in BOOLEAN :
           mp' = MapCycle(mp.cycle + 1, mp.frame, mp.routing, r, n, d)
    /\ UNCHANGED <<fz, hp, sm, sa, pipe>>

MapNext == MapProcess \/ MapNextCycle

SpecMap == MapInit /\ [][MapNext]_vars

----------------------------------------------------------------------------
(* Specification SpecStage: PullOverStageApproach::Process, called cycle *)
(* after cycle (scenarios/park/pull_over/stage_approach.cc) *)

\* the largest number of calls of Process
MaxStageCalls == 6

\* Stage::FinishScenario, of the base class: the call is recorded and what it
\* returns is kept as a value of its own, which is not RUNNING
FinishScenario == [status |-> "FinishScenario()", scenario_finished |-> TRUE]

\* PullOverStageApproach::FinishStage
FinishStage == FinishScenario

\* the mutant of ApproachProcess that finishes the stage when the tasks
\* have succeeded
ApproachProcessFinishWhenOk(enabled, plan_ok) ==
    IF ~enabled
    THEN [ret |-> FinishStage, executed |-> FALSE, logged |-> <<>>]
    ELSE [ret |-> IF plan_ok THEN FinishStage
                  ELSE [status |-> "RUNNING", scenario_finished |-> FALSE],
          executed |-> TRUE,
          logged |-> IF ~plan_ok
                     THEN <<"StopSignUnprotectedStageCreep planning error">>
                     ELSE <<>>]

\* PullOverStageApproach::Process on a frame (the scenario passes the frame
\* of the cycle, so CHECK_NOTNULL holds): what it returns, whether it ran
\* the tasks, and what it logged.  enabled is config_.enabled(), plan_ok the
\* result of ExecuteTaskOnReferenceLine.  The branch under if (0) is never
\* taken.
ApproachProcess(enabled, plan_ok) ==
    IF ~enabled
    THEN [ret |-> FinishStage, executed |-> FALSE, logged |-> <<>>]
    ELSE [ret |-> [status |-> "RUNNING", scenario_finished |-> FALSE],
          executed |-> TRUE,
          logged |-> IF ~plan_ok
                     THEN <<"StopSignUnprotectedStageCreep planning error">>
                     ELSE <<>>]

\* the stage as constructed: enabled or not by its configuration
StageInit ==
    /\ sa \in {[pc |-> "stage", enabled |-> e, scenario_finished |-> FALSE,
                returns |-> <<>>, plan_oks |-> <<>>, executed |-> <<>>,
                log |-> <<>>] : e \in BOOLEAN}
    /\ fz = FzIdle
    /\ hp = HpIdle
    /\ sm = SmIdle
    /\ mp = MpIdle
    /\ PipeIdle

\* a call of Process in a planning cycle; returns, plan_oks and executed keep
\* what every call returned, what its tasks gave and whether it ran them,
\* scenario_finished whether a call has come to FinishScenario
StageApproachProcess ==
    /\ sa.pc = "stage"
    /\ Len(sa.returns) < MaxStageCalls
    /\ \E plan_ok \in BOOLEAN :
           LET r == ApproachProcess(sa.enabled, plan_ok)
           IN  sa' = [sa EXCEPT
                         !.scenario_finished = @ \/ r.ret.scenario_finished,
                         !.returns = Append(@, r.ret.status),
                         !.plan_oks = Append(@, r.executed /\ plan_ok),
                         !.executed = Append(@, r.executed),
                         !.log = @ \o r.logged]
    /\ UNCHANGED <<fz, hp, sm, mp, pipe>>

StageNext == StageApproachProcess

SpecStage == StageInit /\ [][StageNext]_vars

----------------------------------------------------------------------------
(* Properties of GetHyperPlanes *)

\* the points the rows are tried on: a lattice of step 500 over the square
\* and a point beside the nearly vertical edges
TestPoints ==
    {<<x, y>> : x \in {0, 500, 1000, 1500, 2000},
                y \in {0, 500, 1000, 1500, 2000}} \union {<<1, 1000>>}

\* twice the signed area of a closed piece (shoelace): negative when the
\* vertices run clockwise
SignedArea2(piece) ==
    SumSeq([j \in 1..(Len(piece) - 1) |->
               piece[j][1] * piece[j + 1][2] - piece[j + 1][1] * piece[j][2]])

PieceIsClockwise(piece) == SignedArea2(piece) < 0

\* p is strictly inside the clockwise convex piece: strictly to the right of
\* every edge
StrictlyInside(p, piece) ==
    \A j \in 1..(Len(piece) - 1) : CrossProd(piece[j], piece[j + 1], p) < 0

\* the row of A, b where GetHyperPlanes is to put edge j of piece i
RowIndex(edges, i, j) == SumSeq(SubSeq(edges, 1, i - 1)) + j

\* A.p > b and A.p < b for row k.  Row k of A and row k of b come from the
\* same edge and carry the same denominator d > 0, so the numerators decide.
RowGreater(A, b, k, p) == A[k].ax * p[1] + A[k].ay * p[2] > b[k].b

RowLess(A, b, k, p) == A[k].ax * p[1] + A[k].ay * p[2] < b[k].b

\* the edge is exactly vertical or horizontal, or outside the axis tolerance
\* in both coordinates: the cases in which the row is the line through it
EdgeIsExact(v1, v2) ==
    /\ v1[1] = v2[1] \/ Abs(v1[1] - v2[1]) >= kHyperEpsilon
    /\ v1[2] = v2[2] \/ Abs(v1[2] - v2[2]) >= kHyperEpsilon

----------------------------------------------------------------------------
(* Properties of FuseLineSegments *)

\* C5: FuseLineSegments is idempotent: run on the list it produced from a
\* list of 2-point segments, it returns true and leaves the list unchanged.
C5_FuseIdempotent ==
    fz.pc = "refused" => fz.ok /\ fz.ok2 /\ fz.out2 = fz.out

\* C5 witness: the second call has run on a list in which the first call
\* fused segments and left more than one piece
C5_Witness ==
    /\ fz.pc = "refused"
    /\ Len(fz.out) > 1
    /\ \E k \in 1..Len(fz.out) : Len(fz.out[k]) > 2

\* the joint of two segments as the claim describes it
JointCoincides(s1, s2) == DistSq(s1[2], s2[1]) <= kFuseEpsilon * kFuseEpsilon

JointIsConvex(s1, s2) ==
    (s1[2][1] - s1[1][1]) * (s2[2][2] - s1[1][2])
        - (s1[2][2] - s1[1][2]) * (s2[2][1] - s1[1][1]) < 0

\* C6: two adjacent 2-point segments are merged into one 3-point segment
\* exactly when the end of the first and the start of the second are within
\* 1e-8 of each other and the cross product of the first's start, the joint
\* and the second's end is < 0; otherwise both remain, unchanged.  Stated for
\* the list of two segments and for the first two segments of a longer list.
C6_FuseExactlyWhenConvexJoint ==
    (fz.pc = "fused" /\ Len(fz.input) >= 2) =>
        LET s1 == fz.input[1]
            s2 == fz.input[2]
            merge == JointCoincides(s1, s2) /\ JointIsConvex(s1, s2)
        IN  /\ fz.ok
            /\ merge => /\ Len(fz.out[1]) >= 3
                        /\ SubSeq(fz.out[1], 1, 3) = <<s1[1], s1[2], s2[2]>>
            /\ ~merge => fz.out[1] = s1 /\ SubSeq(fz.out[2], 1, 2) = s2
            /\ Len(fz.input) = 2 =>
                   fz.out = IF merge THEN << <<s1[1], s1[2], s2[2]>> >>
                            ELSE fz.input

\* C6 witness: two segments whose joint points differ and are within the
\* tolerance have been fused into one 3-point segment
C6_Witness ==
    /\ fz.pc = "fused"
    /\ Len(fz.input) = 2
    /\ fz.input[1][2] # fz.input[2][1]
    /\ Len(fz.out) = 1
    /\ Len(fz.out[1]) = 3

\* all vertices of the piece lie on one closed side of the line through each
\* of its edges
PieceIsConvex(piece) ==
    \A j \in 1..(Len(piece) - 1) :
        \/ \A k \in 1..Len(piece) :
               CrossProd(piece[j], piece[j + 1], piece[k]) <= 0
        \/ \A k \in 1..Len(piece) :
               CrossProd(piece[j], piece[j + 1], piece[k]) >= 0

\* C7: every piece FuseLineSegments emits from a list of 2-point segments is
\* convex: all its vertices lie on one closed side of the line through each
\* of its edges.
C7_FusedPiecesConvex ==
    fz.pc = "fused" => \A k \in 1..Len(fz.out) : PieceIsConvex(fz.out[k])

----------------------------------------------------------------------------
(* Properties of Process *)

\* Process has just left LoadObstacleInVertices
VerticesLoaded == pc = "LoadObstacleInHyperPlanes"

\* the edge counts and obstacles_num of info agree with its vertex list
EdgeCountsAgree(info) ==
    /\ info.obstacles_num = Len(info.obstacles_vertices_vec)
    /\ Len(info.obstacles_edges_num) = Len(info.obstacles_vertices_vec)
    /\ \A i \in 1..Len(info.obstacles_vertices_vec) :
           info.obstacles_edges_num[i]
               = Len(info.obstacles_vertices_vec[i]) - 1

\* C2: when LoadObstacleInVertices runs on a frame whose vertex list is
\* empty, it leaves, for every piece (fused boundary pieces and perception
\* obstacle pieces, perception enabled or not), an edge count of the number
\* of vertices of the piece minus 1, and obstacles_num equal to the number
\* of pieces; and GetHyperPlanes, run on what it left, reads no vertex past
\* the end of a piece.
C2_EdgeCountsMatchPieces ==
    [][/\ (/\ pc = "LoadObstacleInVertices"
           /\ frame.obstacles_vertices_vec = <<>>
           /\ pc' = "LoadObstacleInHyperPlanes")
          => EdgeCountsAgree(frame')
       /\ (/\ pc = "LoadObstacleInHyperPlanes"
           /\ EdgeCountsAgree(frame))
          => ~loc'.hyper_ub /\ ret'.code = "OK"]_vars

\* C2 witness: LoadObstacleInVertices has run on an empty vertex list and
\* left a fused boundary piece of 3 vertices and a perception obstacle
\* piece, and GetHyperPlanes has run on them
C2_Witness ==
    /\ pc = "returned"
    /\ calls = 1
    /\ ret.code = "OK"
    /\ loc.kept # <<>>
    /\ \E i \in 1..Len(loc.roi_parking_boundary) :
           Len(loc.roi_parking_boundary[i]) >= 3
    /\ Len(frame.obstacles_vertices_vec)
           = Len(loc.roi_parking_boundary) + Len(loc.kept)

\* C3: whenever the hyperplane generator returns success, A and b have as
\* many rows as the edge counts sum to, and edge j of piece i is in the row
\* that follows the rows of the pieces before i (their edge counts summed)
\* and the j - 1 edges of i before it.
C3_RowsAtPrefixSums ==
    (pc = "returned" /\ ret.code = "OK") =>
        /\ Len(frame.obstacles_A) = SumSeq(frame.obstacles_edges_num)
        /\ Len(frame.obstacles_b) = SumSeq(frame.obstacles_edges_num)
        /\ \A i \in 1..Len(frame.obstacles_vertices_vec) :
               \A j \in 1..frame.obstacles_edges_num[i] :
                   LET k == RowIndex(frame.obstacles_edges_num, i, j)
                       row == HyperPlaneRow(
                                  frame.obstacles_vertices_vec[i][j],
                                  frame.obstacles_vertices_vec[i][j + 1])
                   IN  /\ frame.obstacles_A[k]
                              = [ax |-> row.ax, ay |-> row.ay, d |-> row.d]
                       /\ frame.obstacles_b[k] = [b |-> row.b, d |-> row.d]

\* C3 witness: success on pieces of 1, 2 and 4 edges
C3_Witness ==
    /\ pc = "returned"
    /\ ret.code = "OK"
    /\ \A n \in {1, 2, 4} :
           \E i \in 1..Len(frame.obstacles_edges_num) :
               /\ frame.obstacles_edges_num[i] = n
               /\ i < Len(frame.obstacles_edges_num)
    /\ frame.obstacles_edges_num[1] = 2

\* C4 as stated: in both branches, whatever the stations and the brackets,
\* the first point of boundary_points is its last point.
C4_BoundaryPointsClosed ==
    loc.boundary_points # <<>> =>
        loc.boundary_points[1]
            = loc.boundary_points[Len(loc.boundary_points)]

\* the end pose of the frame, taken back to the world frame
EndPoseInWorld ==
    ToWorld(<<frame.open_space_end_pose[1], frame.open_space_end_pose[2]>>,
            frame.origin_point, frame.origin_heading)

\* the squared distance from p to a box whose sides are parallel to the axes
AxisBoxDistSq(box, p) ==
    LET dx == Max(0, Abs(p[1] - box.center[1]) - box.half_length)
        dy == Max(0, Abs(p[2] - box.center[2]) - box.half_width)
    IN  dx * dx + dy * dy

\* p is within the filtering distance of the box
WithinFilteringDistance(box, p) ==
    AxisBoxDistSq(box, p)
        <= input.config.perception_obstacle_filtering_distance
               * input.config.perception_obstacle_filtering_distance

\* the centre of the box, in the local frame, is inside or on the ROI box
CentreInRoi(box) ==
    LET c == ToLocal(box.center, frame.origin_point, frame.origin_heading)
    IN  /\ frame.ROI_xy_boundary[1] <= c[1]
        /\ c[1] <= frame.ROI_xy_boundary[2]
        /\ frame.ROI_xy_boundary[3] <= c[2]
        /\ c[2] <= frame.ROI_xy_boundary[4]

\* the rule of C8 for leaving an obstacle out
ExcludedByRule(obstacle) ==
    \/ obstacle.is_virtual
    \/ ~CentreInRoi(obstacle.box)
    \/ /\ ~WithinFilteringDistance(obstacle.box, input.vehicle_state)
       /\ ~WithinFilteringDistance(obstacle.box, EndPoseInWorld)

KeptByRule(obstacle) == ~ExcludedByRule(obstacle)

\* C8: FilterOutObstacle leaves an obstacle out if and only if it is virtual,
\* or its centre in the local frame is strictly outside the ROI box, or its
\* distances to the vehicle and to the end pose (in the world frame) both
\* exceed the filtering distance; so the obstacles whose pieces
\* LoadObstacleInVertices pushed are, in order, those the rule keeps, among
\* them every obstacle with its centre in or on the ROI box that is within
\* the filtering distance of only one of the two.
C8_FilterRule ==
    (VerticesLoaded /\ input.config.enable_perception_obstacles) =>
        LET kept == SelectSeq(input.obstacles, KeptByRule)
        IN  /\ Len(loc.kept) = Len(kept)
            /\ \A k \in 1..Len(kept) :
                   loc.kept[k]
                       = ObstacleVertices(
                             frame, input.config.perception_obstacle_buffer,
                             kept[k])
            /\ \A k \in 1..Len(input.obstacles) :
                   FilterOutObstacle(
                       frame, input.vehicle_state,
                       input.config.perception_obstacle_filtering_distance,
                       input.obstacles[k])
                       <=> ExcludedByRule(input.obstacles[k])

\* C8 witness: LoadObstacleInVertices has kept an obstacle that is within
\* the filtering distance of the end pose only and whose centre is on the
\* edge of the ROI box, and has left out an obstacle that is not virtual,
\* has its centre in the ROI box and is far from both
C8_Witness ==
    /\ VerticesLoaded
    /\ input.config.enable_perception_obstacles
    /\ Len(loc.kept) = 1
    /\ \E k \in 1..Len(input.obstacles) :
           LET o == input.obstacles[k]
           IN  /\ ~o.is_virtual
               /\ CentreInRoi(o.box)
               /\ ToLocal(o.box.center, frame.origin_point,
                          frame.origin_heading)[2]
                      \in {frame.ROI_xy_boundary[3],
                           frame.ROI_xy_boundary[4]}
               /\ ~WithinFilteringDistance(o.box, input.vehicle_state)
               /\ WithinFilteringDistance(o.box, EndPoseInWorld)
    /\ \E k \in 1..Len(input.obstacles) :
           LET o == input.obstacles[k]
           IN  /\ ~o.is_virtual
               /\ CentreInRoi(o.box)
               /\ ~WithinFilteringDistance(o.box, input.vehicle_state)
               /\ ~WithinFilteringDistance(o.box, EndPoseInWorld)

\* the obstacles of the frame that pass the filter, in order
PassingObstacles ==
    LET Passes(o) ==
            ~FilterOutObstacle(
                 frame, input.vehicle_state,
                 input.config.perception_obstacle_filtering_distance, o)
    IN  SelectSeq(input.obstacles, Passes)

\* the corners of the inflated box of the obstacle in the local frame, in
\* the counter-clockwise order of Box2d::GetAllCorners
InflatedCornersCcw(obstacle) ==
    LET buffer == input.config.perception_obstacle_buffer
        box == [obstacle.box EXCEPT
                   !.half_length = @ + buffer \div 2,
                   !.half_width = @ + buffer \div 2]
        corners == BoxGetAllCorners(box)
    IN  [m \in 1..4 |->
            ToLocal(corners[m], frame.origin_point, frame.origin_heading)]

\* C9: every perception obstacle that passes the filter contributes exactly
\* one piece of exactly 5 vertices: the four corners of the inflated box in
\* clockwise order, the reverse of the counter-clockwise order of the box,
\* followed by the first vertex again; the piece has 4 edges.
C9_ObstaclePieceClosedClockwise ==
    (VerticesLoaded /\ input.config.enable_perception_obstacles) =>
        LET passing == PassingObstacles
            np == Len(loc.roi_parking_boundary)
            nv == Len(frame.obstacles_vertices_vec)
        IN  /\ Len(loc.kept) = Len(passing)
            /\ Len(frame.obstacles_edges_num) = np + Len(passing)
            /\ \A k \in 1..Len(passing) :
                   LET piece == loc.kept[k]
                       ccw == InflatedCornersCcw(passing[k])
                   IN  /\ Len(piece) = 5
                       /\ \A m \in 1..4 : piece[m] = ccw[5 - m]
                       /\ piece[5] = piece[1]
                       /\ PieceIsClockwise(piece)
                       /\ frame.obstacles_vertices_vec[nv - Len(passing) + k]
                              = piece
                       /\ frame.obstacles_edges_num[np + k] = 4

\* C9 witness: two obstacles have passed the filter, on a frame whose local
\* frame is turned by half a turn
C9_Witness ==
    /\ VerticesLoaded
    /\ input.config.enable_perception_obstacles
    /\ Len(loc.kept) = 2
    /\ frame.origin_heading = 2

\* GetParkingBoundary has computed the ROI box in this call and the vehicle
\* position, in the local frame, lies outside it
VehicleOutOfRange ==
    /\ loc.boundary_points # <<>>
    /\ frame.ROI_xy_boundary # <<>>
    /\ ~(/\ frame.ROI_xy_boundary[1] <= loc.vehicle_xy[1]
         /\ loc.vehicle_xy[1] <= frame.ROI_xy_boundary[2]
         /\ frame.ROI_xy_boundary[3] <= loc.vehicle_xy[2]
         /\ loc.vehicle_xy[2] <= frame.ROI_xy_boundary[4])

\* C10 as stated: whenever the vehicle position, in the local frame, lies
\* outside the computed ROI box, Process returns a failed status that carries
\* an out-of-range message.
C10_FailsWithOutOfRangeMessage ==
    VehicleOutOfRange =>
        /\ pc = "returned"
        /\ ret.code = "PLANNING_ERROR"
        /\ ret.msg = "vehicle outside of xy boundary of parking ROI"

\* C10 amended: whenever the vehicle position, in the local frame, lies
\* outside the computed ROI box, Process returns (it neither crashes nor
\* succeeds) the status PLANNING_ERROR with the message "Fail to get parking
\* boundary from map"; the out-of-range text is logged, not returned.
C10_FailsWithBoundaryMessage ==
    VehicleOutOfRange =>
        /\ pc = "returned"
        /\ ret.code = "PLANNING_ERROR"
        /\ ret.msg = "Fail to get parking boundary from map"
        /\ ret.log = <<"vehicle outside of xy boundary of parking ROI",
                       "Fail to get parking boundary from map">>

\* C10 witness: Process has returned with the vehicle above the ROI box, its
\* x within the box
C10_Witness ==
    /\ VehicleOutOfRange
    /\ pc = "returned"
    /\ loc.vehicle_xy[1] >= frame.ROI_xy_boundary[1]
    /\ loc.vehicle_xy[1] <= frame.ROI_xy_boundary[2]

----------------------------------------------------------------------------
(* Properties of GetParkingSpotFromMap *)

\* the last frame holds a lane and this cycle has called GetParkingSpotFromMap
LaneWasCached ==
    /\ mp.pc = "done"
    /\ mp.called
    /\ mp.latest.exists
    /\ mp.latest.target_parking_lane # "null"

----------------------------------------------------------------------------
(* Properties of Process called again on the same frame *)

\* Process has returned from its second call on the frame, and its first
\* call had returned OK
SecondCallAfterSuccess ==
    /\ pc = "returned"
    /\ calls = 2
    /\ before.ret.code = "OK"

\* C12: the outputs of Process are created afresh by every call: a second
\* call on the same frame with the same inputs returns OK again and leaves
\* the end pose (4 entries), the list of vertices, the edge counts and
\* obstacles_num as the first call left them.
C12_SecondCallLeavesOutputsAsFirst ==
    SecondCallAfterSuccess =>
        /\ ret.code = "OK"
        /\ Len(frame.open_space_end_pose) = 4
        /\ frame.open_space_end_pose = before.frame.open_space_end_pose
        /\ frame.obstacles_vertices_vec = before.frame.obstacles_vertices_vec
        /\ frame.obstacles_edges_num = before.frame.obstacles_edges_num
        /\ frame.obstacles_num = before.frame.obstacles_num

----------------------------------------------------------------------------
(* Properties of the configuration checks *)

\* a call of Process with a negative parking_depth_buffer has ended, by a
\* return or by the end of the process at a CHECK
NegativeBufferCallEnded ==
    /\ input.has_id
    /\ input.config.parking_depth_buffer < 0
    /\ pc \in {"returned", "aborted"}

\* C13: a negative parking_depth_buffer is surfaced as a failed result:
\* Process returns a failure Status; it neither ends the process nor
\* returns OK.
C13_NegativeBufferReturnsFailure ==
    NegativeBufferCallEnded =>
        /\ pc = "returned"
        /\ ret.code = "PLANNING_ERROR"

----------------------------------------------------------------------------
(* Properties of GetHyperPlanes on the axis-aligned box of the scenario *)

\* the piece (0,0), (2,0), (2,2), (0,2), (0,0), in metres
ScenarioSquare == Closed(BoxCorners(0, 2, 0, 2))

\* the centroid (1,1) of the square
ScenarioCentroid == <<Metre, Metre>>

\* the normals of the vertical and of the horizontal special case
AxisNormals == {<<1, 0>>, <<-1, 0>>, <<0, 1>>, <<0, -1>>}

\* C14: for the single closed piece (0,0), (2,0), (2,2), (0,2), (0,0) with
\* 4 edges GetHyperPlanes makes exactly 4 rows of A and of b, every row has
\* the normal of the vertical or of the horizontal special case, and the
\* centroid (1,1) satisfies A.(1,1) > b strictly in all 4 rows.
C14_SquareGivesFourAxisRows ==
    (hp.pc = "done" /\ hp.pieces = <<ScenarioSquare>>) =>
        /\ hp.ok
        /\ hp.edges = <<4>>
        /\ Len(hp.A) = 4
        /\ Len(hp.b) = 4
        /\ \A k \in 1..4 :
               /\ <<hp.A[k].ax, hp.A[k].ay>> \in AxisNormals
               /\ hp.A[k].d = 1
               /\ hp.b[k].d = 1
               /\ hp.A[k].ax * ScenarioCentroid[1]
                      + hp.A[k].ay * ScenarioCentroid[2] > hp.b[k].b

\* GetHyperPlanes has run on the square of the scenario
C14_Witness ==
    /\ hp.pc = "done"
    /\ hp.pieces = <<ScenarioSquare>>
    /\ hp.ok
    /\ Len(hp.A) = 4

----------------------------------------------------------------------------
(* Properties of FuseLineSegments on malformed lists *)

\* the list holds a segment of fewer than 2 points
HasSinglePoint(segs) == \E k \in 1..Len(segs) : Len(segs[k]) < 2

\* C15: FuseLineSegments returns false whenever the list holds a segment of
\* fewer than 2 points, wherever the segment is and whether or not its point
\* is an end point of a neighbour; it never returns true with a single-point
\* segment left in the list.
C15_SinglePointSegmentFails ==
    (fz.pc = "fused" /\ HasSinglePoint(fz.input)) =>
        /\ ~fz.ok
        /\ ~(fz.ok /\ HasSinglePoint(fz.out))

----------------------------------------------------------------------------
(* Properties of the sampling loop *)

\* the loop has ended on a configuration with start_s <= end_s
SampledInRange ==
    /\ sm.pc = "done"
    /\ sm.c.start_s <= sm.c.end_s
    /\ sm.c.seg_len > 0

\* the loop, run one iteration at a time, records what SampleStations gives
SampleLoopAgrees ==
    sm.pc = "done" => sm.center_lane_s = SampleStations(sm.c)

\* C16: for every start_s <= end_s, every positive segment length and every
\* heading profile the recorded stations center_lane_s are strictly
\* increasing: none lies below start_s and none is recorded twice.
C16_StationsStrictlyIncreasing ==
    SampledInRange =>
        /\ \A k \in 1..Len(sm.center_lane_s) :
               sm.center_lane_s[k] >= sm.c.start_s
        /\ \A k \in 1..(Len(sm.center_lane_s) - 1) :
               sm.center_lane_s[k] < sm.center_lane_s[k + 1]

\* an iteration has checked a station that is neither start_s nor end_s
CheckedIntermediate ==
    /\ sm.pc \in {"loop", "done"}
    /\ sm.iterations > 0
    /\ sm.c.start_s <= sm.c.end_s
    /\ sm.checked_s # sm.c.start_s
    /\ sm.checked_s # sm.c.end_s

\* C17: an intermediate station is skipped exactly when its heading differs
\* from the heading at the station recorded last by less than the min angle,
\* so a station whose heading has drifted that far from the last recorded
\* one is recorded, also when the drift built up over skipped stations.
C17_SkippedIffSmallTurnSinceRecorded ==
    CheckedIntermediate =>
        (sm.skipped <=>
            Abs(NormalizeAngle(sm.checked_heading - sm.recorded_heading))
                < sm.c.min_angle)

----------------------------------------------------------------------------
(* Properties of the bracket search *)

\* GetParkingBoundary has searched the brackets in this call
BracketsSearched == loc.center_lane_s # <<>>

\* C18: in both branches the near and the far bracket index are valid
\* indices of the edge polyline, in [0, length - 1]: a lower bound of 0 stays
\* 0 and an upper bound equal to the length counts as the last index, so no
\* element at or past the end of the polyline is read.
C18_BracketIndicesValid ==
    BracketsSearched =>
        /\ loc.near \in 0..(Len(loc.center_lane_s) - 1)
        /\ loc.far \in 0..(Len(loc.center_lane_s) - 1)
        /\ ~loc.oob_read

----------------------------------------------------------------------------
(* Properties of FuseLineSegments on collinear segments *)

\* the cross product at the joint of two segments is 0
JointIsStraight(s1, s2) ==
    (s1[2][1] - s1[1][1]) * (s2[2][2] - s1[1][2])
        - (s1[2][2] - s1[1][2]) * (s2[2][1] - s1[1][1]) = 0

\* C19: two consecutive 2-point segments that share their joint point and
\* are collinear (cross product at the joint equal to 0) are merged into one
\* longer segment, as those forming a convex turn are.
C19_CollinearJointFused ==
    (/\ fz.pc = "fused"
     /\ Len(fz.input) = 2
     /\ JointCoincides(fz.input[1], fz.input[2])
     /\ JointIsStraight(fz.input[1], fz.input[2])) =>
        /\ fz.ok
        /\ fz.out = << <<fz.input[1][1], fz.input[1][2], fz.input[2][2]>> >>

----------------------------------------------------------------------------
(* Properties of the rescaling of the road edges *)

\* the centre point of station k, in the local frame
CentreLocal(k) ==
    ToLocal(GetSmoothPoint(input.path, loc.center_lane_s[k]),
            frame.origin_point, frame.origin_heading)

\* the right and the left edge point of station k as sampled, in the local
\* frame
RightSampled(k) ==
    ToLocal(RightLanePoint(input.path, loc.center_lane_s[k]),
            frame.origin_point, frame.origin_heading)

LeftSampled(k) ==
    ToLocal(LeftLanePoint(input.path, loc.center_lane_s[k]),
            frame.origin_point, frame.origin_heading)

\* p lies at the distance |average_l| from the centre point of station k, on
\* the line through the centre point and the sampled edge point
AtHalfWidth(p, sampled, k) ==
    /\ DistSq(p, CentreLocal(k)) = loc.average_l * loc.average_l
    /\ CrossProd(CentreLocal(k), sampled, p) = 0

\* C20: exactly one edge polyline is rescaled per call, the right one when
\* average_l < 0 and the left one otherwise (also when average_l = 0); after
\* it every point of that edge lies at the lateral distance |average_l| from
\* the centre point of its station, and the other edge is as sampled.
C20_OneEdgeRescaledToHalfWidth ==
    BracketsSearched =>
        /\ Len(loc.right_lane_boundary) = Len(loc.center_lane_s)
        /\ Len(loc.left_lane_boundary) = Len(loc.center_lane_s)
        /\ \A k \in 1..Len(loc.center_lane_s) :
               IF loc.average_l < 0
               THEN /\ AtHalfWidth(loc.right_lane_boundary[k],
                                   RightSampled(k), k)
                    /\ loc.left_lane_boundary[k] = LeftSampled(k)
               ELSE /\ AtHalfWidth(loc.left_lane_boundary[k],
                                   LeftSampled(k), k)
                    /\ loc.right_lane_boundary[k] = RightSampled(k)

\* the right edge has been moved from where it was sampled, on a path that
\* turns, with several stations recorded
C20_Witness ==
    /\ BracketsSearched
    /\ loc.average_l < 0
    /\ input.path.bend # 0
    /\ Len(loc.center_lane_s) >= 3
    /\ \A k \in 1..Len(loc.center_lane_s) :
           loc.right_lane_boundary[k] # RightSampled(k)

----------------------------------------------------------------------------
(* Properties of the end of the sampling loop *)

\* the loop is running on a configuration with start_s <= end_s and a
\* positive segment length
SamplingInRange ==
    /\ sm.pc = "loop"
    /\ sm.c.start_s <= sm.c.end_s
    /\ sm.c.seg_len > 0

\* the loop has ended with start_s recorded first and end_s recorded last
EndedFromStartToEnd ==
    /\ sm.pc = "done"
    /\ Len(sm.center_lane_s) >= 1
    /\ sm.center_lane_s[1] = sm.c.start_s
    /\ sm.center_lane_s[Len(sm.center_lane_s)] = sm.c.end_s

\* C21: for every start_s <= end_s and every positive segment length the
\* sampling loop ends after finitely many iterations, and when it has ended
\* the first recorded station is start_s and the last one is end_s.
C21_LoopEndsFromStartToEnd == SamplingInRange ~> EndedFromStartToEnd

\* the loop has ended after skipping and recording stations between start_s
\* and end_s
C21_Witness ==
    /\ EndedFromStartToEnd
    /\ sm.c.start_s < sm.c.end_s
    /\ Len(sm.center_lane_s) >= 3
    /\ sm.iterations > Len(sm.center_lane_s)

----------------------------------------------------------------------------
(* Properties of FuseLineSegments: edges and order *)

\* the number of edges of the pieces before piece j
EdgesBefore(pieces, j) ==
    SumSeq([k \in 1..(j - 1) |-> Len(pieces[k]) - 1])

\* the vertices of the n segments of the list from segment a on, with the
\* first point of every segment after the first left out
Chained(segs, a, n) ==
    <<segs[a][1]>> \o [k \in 1..n |-> segs[a + k - 1][2]]

\* C22: on a list of 2-point segments FuseLineSegments keeps the edges and
\* their order: the pieces it leaves have as many edges in all as there were
\* segments, every piece has at least 2 vertices, and the pieces are the
\* segments in their order, chained, with nothing removed but the first
\* point of every segment fused to the one before it, a point within the
\* tolerance of the joint that stays.
C22_FuseKeepsEdgesAndOrder ==
    fz.pc = "fused" =>
        /\ fz.ok
        /\ EdgesBefore(fz.out, Len(fz.out) + 1) = Len(fz.input)
        /\ \A j \in 1..Len(fz.out) :
               LET a == EdgesBefore(fz.out, j) + 1
                   n == Len(fz.out[j]) - 1
               IN  /\ Len(fz.out[j]) >= 2
                   /\ a + n - 1 <= Len(fz.input)
                   /\ fz.out[j] = Chained(fz.input, a, n)
                   /\ \A k \in (a + 1)..(a + n - 1) :
                          JointCoincides(fz.input[k - 1], fz.input[k])

\* three segments have been fused into one piece of 4 vertices
C22_Witness ==
    /\ fz.pc = "fused"
    /\ fz.ok
    /\ Len(fz.input) = 3
    /\ Len(fz.out) = 1
    /\ Len(fz.out[1]) = 4

----------------------------------------------------------------------------
(* Properties of GetParkingSpotFromMap: the lane written on the frame *)

\* GetParkingSpotFromMap has been called in this cycle and has come past
\* the resolution of the lane: there was a last frame, and the map, if it
\* was asked, has found a lane
PastLaneResolution ==
    /\ mp.pc = "done"
    /\ mp.called
    /\ mp.latest.exists
    /\ mp.queried => mp.nearest # "none"

\* the lane the search started from: the one the map found, or the one the
\* last frame held
SearchedLane ==
    IF mp.queried THEN mp.nearest ELSE mp.latest.target_parking_lane

\* C23: GetParkingSpotFromMap writes the resolved lane on the frame before
\* it searches for the spot: on every path past the resolution of the lane,
\* also when the call returns false because the spot is on no path or is too
\* far, the frame holds the lane that was searched, and the next cycle finds
\* that lane on the last frame.
C23_LaneOnFrameBeforeSearch ==
    /\ [](PastLaneResolution =>
              /\ SearchedLane \in Lanes
              /\ mp.path # <<>>
              /\ mp.path[1] = SearchedLane
              /\ mp.frame.target_parking_lane = SearchedLane)
    /\ [][(mp.pc = "done" /\ mp'.pc = "cycle") =>
              mp'.latest.target_parking_lane = mp.frame.target_parking_lane
         ]_vars

\* the call has returned false because the spot is on no path searched, and
\* the frame holds the lane the map found
C23_Witness ==
    /\ PastLaneResolution
    /\ mp.queried
    /\ ~mp.ok
    /\ mp.spot = "null"
    /\ mp.frame.target_parking_lane = mp.nearest

----------------------------------------------------------------------------
(* Properties of PullOverStageApproach::Process *)

\* C24: while the Approach stage is enabled every call of Process returns
\* RUNNING, whether the tasks on the reference line succeeded or failed; the
\* stage comes to FinishScenario only in a call made while it is disabled, so
\* an enabled stage never completes on its own.
C24_EnabledStageKeepsRunning ==
    sa.pc = "stage" =>
        /\ sa.enabled =>
               /\ \A k \in 1..Len(sa.returns) : sa.returns[k] = "RUNNING"
               /\ \A k \in 1..Len(sa.executed) : sa.executed[k]
               /\ ~sa.scenario_finished
        /\ sa.scenario_finished =>
               /\ ~sa.enabled
               /\ \A k \in 1..Len(sa.returns) :
                      sa.returns[k] = FinishScenario.status
               /\ \A k \in 1..Len(sa.executed) : ~sa.executed[k]

\* an enabled stage has been called MaxStageCalls times, with the tasks
\* succeeding in some calls and failing in others
C24_Witness ==
    /\ sa.pc = "stage"
    /\ sa.enabled
    /\ Len(sa.returns) = MaxStageCalls
    /\ \E j, k \in 1..Len(sa.plan_oks) : sa.plan_oks[j] /\ ~sa.plan_oks[k]
    /\ \A k \in 1..Len(sa.returns) : sa.returns[k] = "RUNNING"

====
